---- MODULE Spec2Model ----
(***************************************************************************)
(* The Gemini CLI account manager (GeminiCliTokenManager) of               *)
(* antigravity2api-nodejs, with the request handlers and the admin routes  *)
(* that drive it.                                                          *)
(*                                                                         *)
(* JavaScript objects have identity: the manager's active list holds       *)
(* references, a request keeps the reference getToken gave it, and         *)
(* reload() builds fresh objects.  The model keeps a heap of token         *)
(* objects and lists of references into it.                                *)
(*                                                                         *)
(* Every action is one synchronous run of the event loop: from the         *)
(* completion of an awaited network call to the next network call (or the  *)
(* return).  Awaits of file I/O (store.readAll, store.getSalt, the         *)
(* fire-and-forget store merge of saveToFile) are taken to complete        *)
(* before the next network event, so they are part of the action.          *)
(***************************************************************************)
EXTENDS Integers, Sequences, FiniteSets, TLC

(* ------------------------------ bounds -------------------------------- *)
NumAccounts == 2
NumProcs == 2
MaxTicks == 1
\* rotation.requestCount of the configuration (request_count strategy)
requestCountPerToken == 2

\* the largest config.retryTimes tried
MaxRetryTimes == 3

\* the longest upstream text, in characters
MaxStreamChars == 4

\* the most frames of an upstream transcript, and the most parts of a frame
MaxFrames == 2
MaxParts == 2

\* the most events the callback receives during one stream
MaxEvents == 3

\* The steps of a streaming connection that are followed
MaxLog == 5

\* The messages of a conversation
MaxMessages == 3

\* The parts of a Gemini model turn that is post-processed
MaxTurnParts == 3

\* The accounts of the credential file and the entries of an import list
MaxStored == 4
MaxImport == 2

(* ------------------------- program constants -------------------------- *)
\* TOKEN_REFRESH_BUFFER (ms), imported from constants/index.js
TOKEN_REFRESH_BUFFER == 300000
\* expires_in is in seconds, timestamp in ms: `token.expires_in * 1000`
MsPerSecond == 1000

\* The clock advances by one refresh buffer per Tick.
TickMs == TOKEN_REFRESH_BUFFER
StartTime == TickMs

Accounts == 1..NumAccounts
Procs == 1..NumProcs
MaxObj == NumAccounts + NumProcs
ObjIds == 1..MaxObj

\* `undefined` as an object reference; NaN as a number
Undef == 0
NaN == 0 - 1

\* access token strings: one more than the copies an account can have
AccessTokens == 0..(MaxObj + 2)

NoProject == ""
ProjectIdValue == "proj-42"

\* expires_in values (seconds) the OAuth endpoint may answer with: one refresh
\* buffer, two refresh buffers
ExpiresInValues == {TOKEN_REFRESH_BUFFER \div MsPerSecond,
                    2 * (TOKEN_REFRESH_BUFFER \div MsPerSecond)}
\* expires_in of the accounts in the initial store: two refresh buffers
InitialExpiresIn == 2 * (TOKEN_REFRESH_BUFFER \div MsPerSecond)
\* upstream statuses of a failed call; 500 stands for every status other
\* than 400/403 and for a transport error (`statusCode || 500`)
FailStatuses == {400, 403, 500}

RotationStrategy == {"round_robin", "quota_exhausted", "request_count"}

VARIABLES
  store,               \* the account file: sequence of account records
  heap,                \* token objects of the manager, by reference
  tokens,              \* this.tokens: sequence of references
  currentIndex,        \* this.currentIndex
  rotationStrategy,    \* this.rotationStrategy
  tokenRequestCounts,  \* this.tokenRequestCounts, 0 = no entry
  initPromise,         \* this._initPromise: "none" | "pending" | "done"
  initList,            \* expiredTokens of the running batch refresh
  initRes,             \* its results: "pending" | "success" | "disable" | "rejected"
  now,                 \* Date.now()
  pc,                  \* per request: "idle" | "refresh" | "fetch" | "request"
  tok,                 \* the token reference the request holds
  total, start, iter,  \* totalTokens, startIndex and i of its getToken scan
  ret,                 \* outcome of its last getToken: "none" | "token" | "null" | "reject"
  adminPc,             \* admin refreshTokenById: "idle" | "refresh"
  adminTok,            \* its tokenData (an object read from the store)
  mgrDisabled,         \* history: accounts the manager disabled, not re-enabled since
  lastQuota,           \* history: the account of the latest upstream report, if that was a 429
  run,                 \* history: accounts returned by the current undisturbed run of calls
                       \* (kept for round_robin and quota_exhausted, and for
                       \* request_count where the run is followed)
  lastError,           \* history: the upstream failure handleApiError saw last, until
                       \* the next getToken
  retryPc,             \* with429Retry: "idle" | "calling" | "returned" | "thrown"
  maxRetries,          \* its maxRetries argument, in halves (3 is 1.5)
  retries,             \* its local retries
  attempt,             \* its local attempt
  outcomes,            \* history: the statuses fn answered with, in order
  retryResult,         \* the status with429Retry returned or threw
  streamBytes,         \* the upstream response body, as bytes (empty: no stream open)
  streamPos,           \* how many of its bytes were delivered to processChunk
  lineBuffer,          \* LineBuffer.buffer, as characters
  emitted,             \* history: the lines returned by append so far, in order
  parserToolCalls,     \* the stream parser's state.toolCalls
  frameCount,          \* upstream frames parsed for the running request
  events,              \* history: the events the parser gave to the callback
  fnsPc,               \* fake-non-stream request: "idle" | "streaming" | "done"
  dialect,             \* the dialect of its handler
  collected,           \* the handler's content, reasoningContent, toolCalls, usageData
  body,                \* the response body sent with res.json
  failedRequest,       \* a request that fails before anything was written
  errorResponse,       \* the status and JSON body its handler answers with
  writerPc,            \* stream request: "idle" | "streaming" | "finalized" | "ended"
  writer,              \* the code writing the stream, its format and its locals
  claudeState,         \* the ClaudeStreamState of the /cli writer
  claudeBlock,         \* handleClaudeRequest's contentIndex, currentBlockType, reasoningSent
  written,             \* history: the frames written to res, in order
  seen,                \* history: the events given to the callback, in order (fake
                       \* stream: the collected reasoning, tool calls and content)
  upstreamCalls,       \* history: the upstream methods called for the request
  signatureCache,      \* the signature cache: model -> bucket -> signature
  upstreamRequest,     \* the last request built: its inputs and the parts of its model turn
  toolNameCache,       \* the tool name cache of the model: safe name -> original name
  declaredTools,       \* the tool names the caller declared in the running request
  toolCallName,        \* the declared tool the upstream called, and the name delivered
  arrived,             \* the parts of the upstream frames of the running stream, in order
  sinceFinish,         \* the parts that arrived after the last frame with a finishReason
  errorDelivery,       \* the failed request (stream or not) and how its error reached the client
  clientClosed,        \* the client closed the connection of the running stream
  heartbeatTimer,      \* "none", "running" or "cleared"
  lineBufferHeld,      \* the processor holds a line buffer of the pool
  upstreamReading,     \* the upstream response is being read
  streamLog,           \* what happened on the connection, in order
  accountFile,         \* the stored accounts at startup: enable, access_token present, expired
  startupPc,           \* _initialize: "none" | "pending" | "done"
  startupTokens,       \* this.tokens during and after _initialize, as stored positions
  startupRes,          \* history: the result of each account's startup refresh
  tokenFile,           \* the account file as the admin operations see it: account -> state
  adminOp,             \* per admin request: the operation, its account and the list it read
  adminDone,           \* history: the operations completed since the file was last at rest
  conversation,        \* the messages of the request converted last
  contents,            \* the contents convertMessages built from them
  turnState,           \* state of parseAndEmitStreamChunk: model, signature, buffers
  turnFrames,          \* the data frames of the turn, as they arrived
  turnEffects,         \* the setSignature calls and callback events, in order
  turnFlags,           \* the gating flags of the signature cache
  modelTurn,           \* the parts of a Gemini-dialect model turn, as sent
  processedTurn,       \* the parts processGeminiModelThoughts left, and its inputs
  storedTokens,        \* the accounts of the credential file, in file order
  importResult,        \* the counts the last import reported
  cliCache,            \* (model, bucket) -> the cached signature and thought text
  cliResponse,         \* the last non-streaming /cli request, its upstream result and body
  cliRouted,           \* the last /cli request: route, body, normalization, converter
  chatPc,              \* where the handler of the streaming chat request is
  chatHandler,         \* the handler that serves it
  chatLog,             \* what was written to the response, in order
  chatHeartbeat,       \* the heartbeat timer of the response
  chatEnded            \* whether res.end was called

\* The token manager and its callers
mgrVars == <<store, heap, tokens, currentIndex, rotationStrategy, tokenRequestCounts,
             initPromise, initList, initRes, now, pc, tok, total, start, iter,
             ret, adminPc, adminTok, mgrDisabled, lastQuota, run, lastError>>

\* The 429 retry helper
retryVars == <<retryPc, maxRetries, retries, attempt, outcomes, retryResult>>

\* The request handlers' helpers
\* The stream line processor
lineVars == <<streamBytes, streamPos, lineBuffer, emitted>>

\* The stream parser
parserVars == <<parserToolCalls, frameCount, events>>

\* The fake-non-stream branch of the handlers
fnsVars == <<fnsPc, dialect, collected, body>>

\* The handlers' error answers
errorVars == <<failedRequest, errorResponse>>

\* The stream writers of the handlers
writerVars == <<writerPc, writer, claudeState, claudeBlock, written, seen, upstreamCalls>>

\* The thought-signature cache and the request built with it
sigVars == <<signatureCache, upstreamRequest>>

\* The tool names of a request and of the tool call answered to it
toolVars == <<toolNameCache, declaredTools, toolCallName>>

\* The upstream parts of a streamed request, in the order they arrived
orderVars == <<arrived, sinceFinish>>

\* The answer to a failed request, stream mode included
deliveryVars == <<errorDelivery>>

\* The connection of a streaming request
connVars == <<clientClosed, heartbeatTimer, lineBufferHeld, upstreamReading, streamLog>>

\* The startup of the token manager over accounts as the import stores them
startupVars == <<accountFile, startupPc, startupTokens, startupRes>>

\* The admin operations that write the account file
adminStoreVars == <<tokenFile, adminOp, adminDone>>

\* An OpenAI conversation and the contents it is converted to
conversionVars == <<conversation, contents>>

\* The parser state of one streamed turn and what the parser did in it
turnVars == <<turnState, turnFrames, turnEffects, turnFlags>>

\* A Gemini model turn and its parts after the post-processing
thoughtVars == <<modelTurn, processedTurn>>

\* The credential file as the list of accounts the store keeps
accountVars == <<storedTokens, importResult>>

\* The signature cache with the thought texts, and the last /cli answer
cliVars == <<cliCache, cliResponse>>

\* The last /cli request, the format of its route and of its converter
routeVars == <<cliRouted>>

\* The HTTP response of a streaming chat request
chatVars == <<chatPc, chatHandler, chatLog, chatHeartbeat, chatEnded>>

serverVars == <<retryVars, lineVars, parserVars, fnsVars, errorVars, writerVars, sigVars, toolVars, orderVars, deliveryVars, connVars, startupVars, adminStoreVars, conversionVars, turnVars, thoughtVars, accountVars, cliVars, routeVars, chatVars>>

vars == <<mgrVars, serverVars>>

(* ------------------------------ helpers ------------------------------- *)
FreeObj == [rt |-> 0, at |-> 0, enable |-> FALSE, ts |-> 0, ein |-> 0, projectId |-> NoProject]

SeqToSet(s) == {s[k] : k \in 1..Len(s)}

RECURSIVE FilterSeq(_, _)
\* s.filter(x => x \in keep)
FilterSeq(s, keep) ==
  IF s = <<>> THEN <<>>
  ELSE IF Head(s) \in keep THEN <<Head(s)>> \o FilterSeq(Tail(s), keep)
  ELSE FilterSeq(Tail(s), keep)

Max(a, b) == IF a >= b THEN a ELSE b

\* JavaScript's a % b on non-negative integers and NaN (x % 0 is NaN)
JsMod(a, b) == IF a = NaN \/ b = NaN \/ b = 0 THEN NaN ELSE a % b
JsAdd(a, b) == IF a = NaN \/ b = NaN THEN NaN ELSE a + b

\* this.tokens[index]: undefined outside the array (and for NaN)
TokenAt(toks, index) ==
  IF index = NaN \/ index >= Len(toks) THEN Undef ELSE toks[index + 1]

\* No upstream failure seen since the last getToken
NoError == [status |-> 0, body |-> <<>>, account |-> 0]

(* ------------------------- pure program parts ------------------------- *)
\* isExpired(token) at clock reading `time`
isExpired(t, time) ==
  IF t.ts = 0 \/ t.ein = 0 THEN TRUE
  ELSE time >= (t.ts + t.ein * MsPerSecond) - TOKEN_REFRESH_BUFFER

\* allTokens.findIndex(t => t.refresh_token === r), 0 when there is none
FindIndex(st, r) ==
  IF \E j \in 1..Len(st) : st[j].rt = r
  THEN CHOOSE j \in 1..Len(st) : st[j].rt = r /\ \A k \in 1..(j - 1) : st[k].rt # r
  ELSE 0

\* the store's merge of one in-memory token into the stored list
applyUpdate(st, t) ==
  LET j == FindIndex(st, t.rt) IN IF j = 0 THEN st ELSE [st EXCEPT ![j] = t]

RECURSIVE mergeActiveTokens(_, _)
\* TokenStore.mergeActiveTokens: read all, merge the given tokens, write all
mergeActiveTokens(st, targets) ==
  IF targets = <<>> THEN st
  ELSE mergeActiveTokens(applyUpdate(st, Head(targets)), Tail(targets))

\* saveToFile(tokenToUpdate): the token given, or the whole active list for null
saveToFile(M, o) ==
  IF o = Undef
  THEN mergeActiveTokens(M.store, [k \in 1..Len(M.tokens) |-> M.heap[M.tokens[k]]])
  ELSE mergeActiveTokens(M.store, <<M.heap[o]>>)

\* disableToken(token) on the manager state M
disableToken(M, o) ==
  LET r == M.heap[o].rt
      h1 == [M.heap EXCEPT ![o].enable = FALSE]
      st1 == saveToFile([M EXCEPT !.heap = h1], Undef)
      toks1 == FilterSeq(M.tokens, {x \in ObjIds : h1[x].rt # r})
  IN [M EXCEPT !.heap = h1,
               !.store = st1,
               !.counts = [M.counts EXCEPT ![r] = 0],
               !.tokens = toks1,
               !.currentIndex = JsMod(M.currentIndex, Max(Len(toks1), 1)),
               !.disabled = M.disabled \cup {r}]

\* A variant of _handleTokenError that forgets status 400
handleTokenErrorOnly403(status) == IF status = 403 THEN "disable" ELSE "skip"

\* _handleTokenError(error, token): 'disable' for 400/403, else 'skip'
handleTokenError(status) == IF status = 403 \/ status = 400 THEN "disable" ELSE "skip"

\* A variant of refreshToken that leaves the old timestamp on the token
refreshedKeepTimestamp(t, e, version, time) == [t EXCEPT !.at = version, !.ein = e]

\* refreshToken's success branch: the response's fields, then saveToFile(token)
refreshed(t, e, version, time) == [t EXCEPT !.at = version, !.ein = e, !.ts = time]

\* The access token of a refresh response: a string no copy of the account
\* holds (access tokens are only ever compared for equality)
newAccessToken(r) ==
  LET held == {store[j].at : j \in {k \in 1..Len(store) : store[k].rt = r}}
              \cup {heap[o].at : o \in {x \in ObjIds : heap[x].rt = r}}
              \cup (IF adminTok.rt = r THEN {adminTok.at} ELSE {})
  IN CHOOSE v \in AccessTokens \ held : \A w \in AccessTokens \ held : v <= w

\* The manager state the actions work on
Mgr == [heap |-> heap, store |-> store, tokens |-> tokens, currentIndex |-> currentIndex,
        counts |-> tokenRequestCounts, disabled |-> mgrDisabled]

\* A variant of the index update that never moves on
advanceStay(M, index, o, strategy) == [M EXCEPT !.currentIndex = index]

\* A variant of the index update that moves on at N without resetting the counter
advanceNoReset(M, index, o, strategy) ==
  IF strategy = "round_robin"
       \/ (strategy = "request_count" /\ M.counts[M.heap[o].rt] >= requestCountPerToken)
  THEN [M EXCEPT !.currentIndex = JsMod(JsAdd(index, 1), Len(M.tokens))]
  ELSE [M EXCEPT !.currentIndex = index]

\* getToken lines 510-525: the index update after a candidate is ready
advance(M, index, o, strategy) ==
  LET r == M.heap[o].rt
      count == M.counts[r]
  IN IF strategy = "round_robin"
     THEN [M EXCEPT !.currentIndex = JsMod(JsAdd(index, 1), Len(M.tokens))]
     ELSE IF strategy = "request_count" /\ count >= requestCountPerToken
     THEN [M EXCEPT !.counts = [M.counts EXCEPT ![r] = 0],
                    !.currentIndex = JsMod(JsAdd(index, 1), Len(M.tokens))]
     ELSE [M EXCEPT !.currentIndex = index]

\* What a request is left with after a synchronous run of getToken
Outcome(M, p, t, i, r) == [M |-> M, pc |-> p, tok |-> t, iter |-> i, ret |-> r]

\* _prepareToken after the expiry check: projectId bootstrap or ready
prepared(M, tot, st, i, o, strategy) ==
  IF M.heap[o].projectId = NoProject
  THEN Outcome(M, "fetch", o, i, "none")
  ELSE Outcome(advance(M, JsMod(JsAdd(st, i), tot), o, strategy), "request", o, i, "token")

\* One iteration of getToken's loop, up to its first network call or return.
\* An undefined candidate makes _prepareToken throw a TypeError, and
\* _handleTokenError throws again inside the catch block: getToken rejects.
scan(M, tot, st, i, strategy, time) ==
  IF i >= tot THEN Outcome(M, "idle", Undef, 0, "null")
  ELSE LET o == TokenAt(M.tokens, JsMod(JsAdd(st, i), tot)) IN
    IF o = Undef THEN Outcome(M, "idle", Undef, 0, "reject")
    ELSE IF isExpired(M.heap[o], time) THEN Outcome(M, "refresh", o, i, "none")
    ELSE prepared(M, tot, st, i, o, strategy)

\* getToken's handling of a failed or disabling candidate, then the next one
afterFailure(M, tot, st, i, o, action, strategy, time) ==
  IF action = "disable"
  THEN LET M1 == disableToken(M, o) IN
       IF Len(M1.tokens) = 0 THEN Outcome(M1, "idle", Undef, 0, "null")
       ELSE scan(M1, tot, st, i + 1, strategy, time)
  ELSE scan(M, tot, st, i + 1, strategy, time)

(* ------------------------------ actions ------------------------------- *)
\* References that are still reachable; everything else is garbage
Live(toks, tk, il) == (SeqToSet(toks) \cup {tk[p] : p \in Procs} \cup SeqToSet(il)) \ {Undef}

\* Installs the manager state M (after tok' and initList' are set)
Commit(M) ==
  /\ store' = M.store
  /\ tokens' = M.tokens
  /\ currentIndex' = M.currentIndex
  /\ tokenRequestCounts' = M.counts
  /\ mgrDisabled' = M.disabled
  /\ heap' = [o \in ObjIds |->
               IF o \in Live(M.tokens, tok', initList') THEN M.heap[o] ELSE FreeObj]

\* Installs what a synchronous run of getToken left request p with
Apply(p, out, tot, st) ==
  /\ pc' = [pc EXCEPT ![p] = out.pc]
  /\ tok' = [tok EXCEPT ![p] = out.tok]
  /\ ret' = [ret EXCEPT ![p] = out.ret]
  /\ LET scanning == out.pc \in {"refresh", "fetch"} IN
       /\ iter' = [iter EXCEPT ![p] = IF scanning THEN out.iter ELSE 0]
       /\ total' = [total EXCEPT ![p] = IF scanning THEN tot ELSE 0]
       /\ start' = [start EXCEPT ![p] = IF scanning THEN st ELSE 0]

MaxRun == 2 * NumAccounts

\* The history of an undisturbed run of immediately successful calls
Extend(r, a) == IF Len(r) < MaxRun THEN Append(r, a) ELSE Append(Tail(r), a)

\* _initialize on the stored list st: fresh objects for the enabled accounts,
\* then the batch refresh of the expired ones is sent
initialize(st, dis) ==
  LET held == {tok[p] : p \in Procs} \ {Undef}
      enabled == {j \in 1..Len(st) : st[j].enable}
      free == ObjIds \ held
      \* the k-th enabled stored account and the k-th free reference
      RankIn(S, x) == Cardinality({y \in S : y <= x})
      nth(S, k) == CHOOSE x \in S : RankIn(S, x) = k
      n == Cardinality(enabled)
      toks == [k \in 1..n |-> nth(free, k)]
      h == [o \in ObjIds |->
             IF \E k \in 1..n : toks[k] = o
             THEN st[nth(enabled, CHOOSE k \in 1..n : toks[k] = o)]
             ELSE heap[o]]
      expired == FilterSeq(toks, {o \in ObjIds : isExpired(h[o], now)})
  IN /\ initList' = expired
     /\ initRes' = [k \in 1..Len(expired) |-> "pending"]
     /\ initPromise' = IF expired = <<>> THEN "done" ELSE "pending"
     /\ run' = <<>>
     /\ UNCHANGED <<pc, tok, total, start, iter, ret>>
     /\ Commit([heap |-> h, store |-> st, tokens |-> toks, currentIndex |-> 0,
                counts |-> [a \in Accounts |-> 0], disabled |-> dis])

\* The first getToken of the process: _ensureInitialized starts _initialize
EnsureInitialized ==
  /\ initPromise = "none"
  /\ initialize(store, mgrDisabled)
  /\ UNCHANGED <<rotationStrategy, now, adminPc, adminTok, lastQuota, lastError, serverVars>>

\* POST /geminicli/tokens/reload: reload()
Reload ==
  /\ initPromise = "done"
  /\ initialize(store, mgrDisabled)
  /\ UNCHANGED <<rotationStrategy, now, adminPc, adminTok, lastQuota, lastError, serverVars>>

RECURSIVE disableAll(_, _, _)
\* _refreshExpiredTokensConcurrently lines 141-143: the batch disable
disableAll(M, list, res) ==
  IF list = <<>> THEN M
  ELSE disableAll(IF Head(res) = "disable" THEN disableToken(M, Head(list)) ELSE M,
                  Tail(list), Tail(res))

\* One refresh of the startup batch settles; the last one to settle resumes
\* _refreshExpiredTokensConcurrently, which disables the 400/403 accounts
InitSettle(k, M, result) ==
  LET res == [initRes EXCEPT ![k] = result]
      done == \A j \in 1..Len(res) : res[j] # "pending"
  IN /\ initPromise = "pending"
     /\ initRes[k] = "pending"
     /\ initRes' = IF done THEN <<>> ELSE res
     /\ initList' = IF done THEN <<>> ELSE initList
     /\ initPromise' = IF done THEN "done" ELSE "pending"
     /\ run' = <<>>
     /\ UNCHANGED <<pc, tok, total, start, iter, ret, rotationStrategy, now, adminPc,
                    adminTok, lastQuota, lastError, serverVars>>
     /\ Commit(IF done THEN disableAll(M, initList, res) ELSE M)

\* _refreshTokenSafe: the OAuth endpoint answers the startup refresh with a token
InitRefreshOk(k, e) ==
  /\ k \in 1..Len(initList)
  /\ LET o == initList[k]
         r == heap[o].rt
         h1 == [heap EXCEPT ![o] = refreshed(heap[o], e, newAccessToken(r), now)]
         M1 == [Mgr EXCEPT !.heap = h1]
     IN InitSettle(k, [M1 EXCEPT !.store = saveToFile(M1, o)], "success")

\* _refreshTokenSafe: the startup refresh fails with an upstream status
InitRefreshFail(k, status) ==
  /\ k \in 1..Len(initList)
  /\ InitSettle(k, Mgr, IF handleTokenError(status) = "disable" THEN "disable" ELSE "rejected")

\* A request calls getToken(); the scan runs to its first network call or
\* return. The history of the run is kept if followed
GetTokenCall(p, followed) ==
  /\ pc[p] = "idle"
  /\ initPromise = "done"
  /\ LET out == IF Len(tokens) = 0 THEN Outcome(Mgr, "idle", Undef, 0, "null")
                ELSE scan(Mgr, Len(tokens), currentIndex, 0, rotationStrategy, now)
     IN /\ Apply(p, out, Len(tokens), currentIndex)
        /\ run' = IF out.ret = "token" /\ followed
                  THEN Extend(run, heap[out.tok].rt) ELSE <<>>
        /\ lastError' = NoError
        /\ UNCHANGED <<rotationStrategy, initPromise, initList, initRes, now,
                       adminPc, adminTok, lastQuota, serverVars>>
        /\ Commit(out.M)

\* A request calls getToken()
GetTokenStart(p) == GetTokenCall(p, rotationStrategy # "request_count")

\* recordRequest is followed up to the count that makes request_count rotate;
\* the other strategies never read the counter
MaxCount == IF rotationStrategy = "request_count" THEN requestCountPerToken ELSE 1

\* What is left unchanged by a step of getToken after a network call
ScanFrame ==
  /\ run' = <<>>
  /\ UNCHANGED <<rotationStrategy, initPromise, initList, initRes, now, adminPc,
                 adminTok, lastQuota, lastError, serverVars>>

\* refreshToken inside _prepareToken: the OAuth endpoint answers with a token
RefreshOk(p, e) ==
  /\ pc[p] = "refresh"
  /\ LET o == tok[p]
         r == heap[o].rt
         h1 == [heap EXCEPT ![o] = refreshed(heap[o], e, newAccessToken(r), now)]
         M1 == [Mgr EXCEPT !.heap = h1]
         M2 == [M1 EXCEPT !.store = saveToFile(M1, o)]
         out == prepared(M2, total[p], start[p], iter[p], o, rotationStrategy)
     IN /\ Apply(p, out, total[p], start[p])
        /\ ScanFrame
        /\ Commit(out.M)

\* refreshToken inside _prepareToken throws TokenError(status)
RefreshFail(p, status) ==
  /\ pc[p] = "refresh"
  /\ LET out == afterFailure(Mgr, total[p], start[p], iter[p], tok[p],
                             handleTokenError(status), rotationStrategy, now)
     IN /\ Apply(p, out, total[p], start[p])
        /\ ScanFrame
        /\ Commit(out.M)

\* fetchProjectId answers with a project: stored on the token and saved
FetchOk(p) ==
  /\ pc[p] = "fetch"
  /\ LET o == tok[p]
         h1 == [heap EXCEPT ![o].projectId = ProjectIdValue]
         M1 == [Mgr EXCEPT !.heap = h1]
         M2 == [M1 EXCEPT !.store = saveToFile(M1, o)]
         out == Outcome(advance(M2, JsMod(JsAdd(start[p], iter[p]), total[p]), o,
                                rotationStrategy), "request", o, 0, "token")
     IN /\ Apply(p, out, total[p], start[p])
        /\ ScanFrame
        /\ Commit(out.M)

\* fetchProjectId answers without a project: _prepareToken returns 'disable'
FetchNull(p) ==
  /\ pc[p] = "fetch"
  /\ LET out == afterFailure(Mgr, total[p], start[p], iter[p], tok[p], "disable",
                             rotationStrategy, now)
     IN /\ Apply(p, out, total[p], start[p])
        /\ ScanFrame
        /\ Commit(out.M)

\* fetchProjectId throws TokenError(status)
FetchFail(p, status) ==
  /\ pc[p] = "fetch"
  /\ LET out == afterFailure(Mgr, total[p], start[p], iter[p], tok[p],
                             handleTokenError(status), rotationStrategy, now)
     IN /\ Apply(p, out, total[p], start[p])
        /\ ScanFrame
        /\ Commit(out.M)

\* disableCurrentToken(token): the active token with the same access token
disableCurrentToken(M, o) ==
  LET same == {k \in 1..Len(M.tokens) :
                 /\ M.heap[M.tokens[k]].rt = M.heap[o].rt
                 /\ M.heap[M.tokens[k]].at = M.heap[o].at}
  IN IF same = {} THEN M
     ELSE disableToken(M, M.tokens[CHOOSE k \in same : \A j \in same : k <= j])

\* The end of a request's upstream call
RequestEnds(p) ==
  /\ pc[p] = "request"
  /\ pc' = [pc EXCEPT ![p] = "idle"]
  /\ tok' = [tok EXCEPT ![p] = Undef]
  /\ ret' = [ret EXCEPT ![p] = "none"]
  /\ UNCHANGED <<rotationStrategy, initPromise, initList, initRes, now, total,
                 start, iter, adminPc, adminTok, serverVars>>

\* What a handler's report of the upstream answer leaves unchanged
ReportFrame(p) ==
  /\ RequestEnds(p)
  /\ UNCHANGED lastError

\* The upstream chat call succeeds: recordRequest(token)
UpstreamOk(p) ==
  /\ ReportFrame(p)
  /\ LET r == heap[tok[p]].rt IN
       /\ tokenRequestCounts[r] < MaxCount
       /\ Commit([Mgr EXCEPT !.counts = [tokenRequestCounts EXCEPT ![r] = @ + 1]])
  /\ lastQuota' = 0
  /\ UNCHANGED run

\* handleApiError, status 403 without "The caller does not": disableCurrentToken
Upstream403(p) ==
  /\ ReportFrame(p)
  /\ Commit(disableCurrentToken(Mgr, tok[p]))
  /\ lastQuota' = 0
  /\ run' = <<>>

\* handleApiError, status 429 (after with429Retry gave up): only an error is thrown
Upstream429(p) ==
  /\ ReportFrame(p)
  /\ Commit(Mgr)
  /\ lastQuota' = IF rotationStrategy = "quota_exhausted" THEN heap[tok[p]].rt ELSE 0
  /\ UNCHANGED run

\* handleApiError, any other status (or 403 "The caller does not ...")
UpstreamOther(p) ==
  /\ ReportFrame(p)
  /\ Commit(Mgr)
  /\ lastQuota' = 0
  /\ UNCHANGED run

\* The phrase of the upstream's 403 for a request it cannot serve
CallerDoesNot == "The caller does not"

\* The bodies of upstream errors, as the phrases they are made of
ErrorBodies == {<<>>, <<"Permission denied">>, <<CallerDoesNot, "have permission">>}

\* isCallerDoesNotHavePermission(errorBody): the body includes the phrase
isCallerDoesNotHavePermission(errorBody) ==
  \E k \in 1..Len(errorBody) : errorBody[k] = CallerDoesNot

\* A variant of handleApiError that disables on every 403
handleApiErrorAny403(status, errorBody) == IF status = 403 THEN "disable" ELSE "none"

\* handleApiError(error, token): disableCurrentToken only for a 403 whose body
\* lacks the phrase; an error is thrown in every case
handleApiError(status, errorBody) ==
  IF status = 403 /\ ~isCallerDoesNotHavePermission(errorBody) THEN "disable" ELSE "none"

\* The upstream chat call fails with a status and a body: handleApiError
UpstreamFails(p, status, errorBody) ==
  /\ RequestEnds(p)
  /\ LET disable == handleApiError(status, errorBody) = "disable" IN
       /\ Commit(IF disable THEN disableCurrentToken(Mgr, tok[p]) ELSE Mgr)
       /\ run' = IF disable THEN <<>> ELSE run
  /\ lastQuota' = IF status = 429 /\ rotationStrategy = "quota_exhausted"
                  THEN heap[tok[p]].rt ELSE 0
  /\ lastError' = [status |-> status, body |-> errorBody, account |-> heap[tok[p]].rt]

\* What the admin refresh leaves unchanged
AdminFrame ==
  UNCHANGED <<rotationStrategy, initPromise, initList, initRes, now, pc, tok, total,
              start, iter, ret, lastQuota, run, lastError, serverVars>>

\* POST /geminicli/tokens/:id/refresh: refreshTokenById sends the OAuth request
AdminRefreshStart(j) ==
  /\ adminPc = "idle"
  /\ j \in 1..Len(store)
  /\ adminPc' = "refresh"
  /\ adminTok' = store[j]
  /\ AdminFrame
  /\ Commit(Mgr)

\* refreshTokenById: the OAuth endpoint answers; saveToFile(tokenData)
AdminRefreshOk(e) ==
  /\ adminPc = "refresh"
  /\ adminPc' = "idle"
  /\ adminTok' = FreeObj
  /\ AdminFrame
  /\ Commit([Mgr EXCEPT !.store =
       mergeActiveTokens(store, <<refreshed(adminTok, e, newAccessToken(adminTok.rt), now)>>)])

\* refreshTokenById: the TokenError goes to the route, which answers with its status
AdminRefreshFail(status) ==
  /\ adminPc = "refresh"
  /\ adminPc' = "idle"
  /\ adminTok' = FreeObj
  /\ AdminFrame
  /\ Commit(Mgr)

\* Time passes
Tick ==
  /\ now < StartTime + MaxTicks * TickMs
  /\ now' = now + TickMs
  /\ UNCHANGED <<rotationStrategy, initPromise, initList, initRes, pc, tok, total,
                 start, iter, ret, adminPc, adminTok, lastQuota, run, lastError, serverVars>>
  /\ Commit(Mgr)

(* ------------------------- the 429 retry helper ----------------------- *)
\* config.retryTimes as configured, in halves: negative, zero, whole and fractional
RetryTimesValues == (0 - 2)..(2 * MaxRetryTimes + 1)

OkStatus == 200
TooManyRequests == 429
UpstreamStatuses == {TooManyRequests} \cup FailStatuses

\* getSafeRetries(retryTimes), argument in halves, result a whole number
getSafeRetries(h) == IF h > 0 THEN h \div 2 ELSE 0

\* with429Retry's retries: floor of a finite positive maxRetries (in halves), else 0
floorRetries(h) == IF h > 0 THEN h \div 2 ELSE 0

\* A variant of the retry test that allows one retry more
shouldRetryOnceMore(status, att, r) == status = TooManyRequests /\ att <= r

\* with429Retry's test in the catch block
shouldRetry(status, att, r) == status = TooManyRequests /\ att < r

\* What the retry helper leaves unchanged
RetryFrame == UNCHANGED <<mgrVars, lineVars, parserVars, fnsVars, errorVars, writerVars, sigVars, toolVars, orderVars, deliveryVars, connVars, startupVars, adminStoreVars, conversionVars, turnVars, thoughtVars, accountVars, cliVars, routeVars, chatVars>>

\* A handler calls with429Retry(fn, maxRetries): either with
\* getSafeRetries(config.retryTimes) or with Number(config.retryTimes || 0);
\* fn is called for the first time
RetryStart(h, safe) ==
  /\ retryPc = "idle"
  /\ retryPc' = "calling"
  /\ maxRetries' = IF safe THEN 2 * getSafeRetries(h) ELSE h
  /\ retries' = floorRetries(maxRetries')
  /\ attempt' = 0
  /\ outcomes' = <<>>
  /\ retryResult' = 0
  /\ RetryFrame

\* fn resolves: with429Retry returns its value
FnReturns ==
  /\ retryPc = "calling"
  /\ retryPc' = "returned"
  /\ outcomes' = Append(outcomes, OkStatus)
  /\ retryResult' = OkStatus
  /\ UNCHANGED <<maxRetries, retries, attempt>>
  /\ RetryFrame

\* fn throws an error with a status: retry (fn is called again) or rethrow
FnThrows(status) ==
  /\ retryPc = "calling"
  /\ outcomes' = Append(outcomes, status)
  /\ IF shouldRetry(status, attempt, retries)
     THEN /\ attempt' = attempt + 1
          /\ UNCHANGED <<retryPc, retryResult>>
     ELSE /\ retryPc' = "thrown"
          /\ retryResult' = status
          /\ UNCHANGED attempt
  /\ UNCHANGED <<maxRetries, retries>>
  /\ RetryFrame

\* The handler is done with the result
RetryDone ==
  /\ retryPc \in {"returned", "thrown"}
  /\ retryPc' = "idle"
  /\ maxRetries' = 0
  /\ retries' = 0
  /\ attempt' = 0
  /\ outcomes' = <<>>
  /\ retryResult' = 0
  /\ RetryFrame

(* ---------------------- the stream line processor -------------------- *)
\* Characters: a letter, the line feed, a two-byte letter, U+FFFD
LF == "LF"
Replacement == "FFFD"
Chars == {"a", LF, "E9"}

\* Bytes: 0x61, 0x0A, and the UTF-8 encoding C3 A9 of U+00E9
LeadByte == "C3"
ContinuationByte == "A9"

RECURSIVE utf8Encode(_)
\* The upstream's encoding of a text
utf8Encode(text) ==
  IF text = <<>> THEN <<>>
  ELSE (CASE Head(text) = "a" -> <<"61">>
          [] Head(text) = LF -> <<"0A">>
          [] OTHER -> <<LeadByte, ContinuationByte>>) \o utf8Encode(Tail(text))

RECURSIVE toStringUtf8(_)
\* chunk.toString('utf8'): an incomplete or stray byte decodes to U+FFFD
toStringUtf8(bytes) ==
  IF bytes = <<>> THEN <<>>
  ELSE IF Head(bytes) = "61" THEN <<"a">> \o toStringUtf8(Tail(bytes))
  ELSE IF Head(bytes) = "0A" THEN <<LF>> \o toStringUtf8(Tail(bytes))
  ELSE IF Head(bytes) = LeadByte /\ Len(bytes) >= 2 /\ bytes[2] = ContinuationByte
  THEN <<"E9">> \o toStringUtf8(Tail(Tail(bytes)))
  ELSE <<Replacement>> \o toStringUtf8(Tail(bytes))

\* buffer.indexOf('\n', start), 0 when there is none (positions from 1)
IndexOfLF(buf, from) ==
  IF \E k \in from..Len(buf) : buf[k] = LF
  THEN CHOOSE k \in from..Len(buf) : buf[k] = LF /\ \A j \in from..(k - 1) : buf[j] # LF
  ELSE 0

RECURSIVE appendLoop(_, _, _)
\* LineBuffer.append's while loop: the complete lines and the position after them
appendLoop(buf, from, lines) ==
  LET end == IndexOfLF(buf, from) IN
    IF end = 0 THEN [lines |-> lines, start |-> from]
    ELSE appendLoop(buf, end + 1, Append(lines, SubSeq(buf, from, end - 1)))

\* LineBuffer.append(chunk): the lines returned and the buffer kept
append(buf, chunk) ==
  LET whole == buf \o chunk
      r == appendLoop(whole, 1, <<>>)
  IN [lines |-> r.lines,
      buffer |-> IF r.start <= Len(whole) THEN SubSeq(whole, r.start, Len(whole)) ELSE <<>>]

\* The texts an upstream stream may carry: up to MaxStreamChars characters, LF last
Texts ==
  UNION {{t \in [1..n -> Chars] : t[n] = LF} : n \in 1..MaxStreamChars}

\* What the line processor leaves unchanged
LineFrame == UNCHANGED <<mgrVars, retryVars, parserVars, fnsVars, errorVars, writerVars, sigVars, toolVars, orderVars, deliveryVars, connVars, startupVars, adminStoreVars, conversionVars, turnVars, thoughtVars, accountVars, cliVars, routeVars, chatVars>>

\* createStreamLineProcessor: a cleared LineBuffer for a new upstream response
StreamOpen(text) ==
  /\ streamBytes = <<>>
  /\ streamBytes' = utf8Encode(text)
  /\ streamPos' = 0
  /\ lineBuffer' = <<>>
  /\ emitted' = <<>>
  /\ LineFrame

\* processChunk(chunk) for the next n bytes of the response
processChunk(n) ==
  /\ n \in 1..(Len(streamBytes) - streamPos)
  /\ LET text == toStringUtf8(SubSeq(streamBytes, streamPos + 1, streamPos + n))
         r == append(lineBuffer, text)
     IN /\ lineBuffer' = r.buffer
        /\ emitted' = emitted \o r.lines
  /\ streamPos' = streamPos + n
  /\ UNCHANGED streamBytes
  /\ LineFrame

\* The response ends: close() releases the LineBuffer
StreamClose ==
  /\ streamBytes # <<>>
  /\ streamPos = Len(streamBytes)
  /\ streamBytes' = <<>>
  /\ streamPos' = 0
  /\ lineBuffer' = <<>>
  /\ emitted' = <<>>
  /\ LineFrame

(* --------------------------- the stream parser ------------------------ *)
\* Strings of the upstream parts, as character sequences: '', 'a', 'b'
Str == {<<>>, <<"a">>, <<"b">>}

\* part.functionCall.args: an object, or left out by the upstream
NoArgs == "absent"
ArgsValues == {NoArgs, "object"}
ToolNames == {"f", "g"}

\* The parts of a frame: thought, text, functionCall
Parts ==
  {[kind |-> "thought", text |-> t, name |-> "", args |-> NoArgs] : t \in Str}
    \cup {[kind |-> "text", text |-> t, name |-> "", args |-> NoArgs] : t \in Str}
    \cup {[kind |-> "functionCall", text |-> <<>>, name |-> n, args |-> a] :
            n \in ToolNames, a \in ArgsValues}

\* The part lists of a frame
PartLists == UNION {[1..n -> Parts] : n \in 0..MaxParts}

\* JSON.stringify(args): undefined for undefined
JsUndefined == "undefined"
JsonStringify(args) == IF args = NoArgs THEN JsUndefined ELSE "{}"

\* JSON.parse(text) returns (it throws a SyntaxError for undefined)
JsonParses(text) == text = "{}"

\* convertToToolCall(functionCall)
convertToToolCall(part) == [name |-> part.name, arguments |-> JsonStringify(part.args)]

NoEventFields == [text |-> <<>>, tool_calls |-> <<>>]

RECURSIVE parseParts(_, _, _)
\* parseAndEmitStreamChunk's loop over the parts: the events it emits and the
\* tool calls it buffers
parseParts(parts, buffered, out) ==
  IF parts = <<>> THEN [toolCalls |-> buffered, events |-> out]
  ELSE LET part == Head(parts) IN
    IF part.kind = "thought"
    THEN parseParts(Tail(parts), buffered,
                    Append(out, [NoEventFields EXCEPT !.text = part.text] @@ [type |-> "reasoning"]))
    ELSE IF part.kind = "text"
    THEN parseParts(Tail(parts), buffered,
                    Append(out, [NoEventFields EXCEPT !.text = part.text] @@ [type |-> "text"]))
    ELSE parseParts(Tail(parts), Append(buffered, convertToToolCall(part)), out)

\* A parser that drops the buffered tool calls at a finishReason
parseAndDropToolCalls(parts, finish, hasUsage, buffered) ==
  LET r == parseParts(parts, buffered, <<>>)
      usage == IF finish /\ hasUsage THEN <<NoEventFields @@ [type |-> "usage"]>> ELSE <<>>
  IN [toolCalls |-> IF finish THEN <<>> ELSE r.toolCalls,
      events |-> r.events \o usage]

\* parseAndEmitStreamChunk(line) for a data line with these parts; a
\* finishReason flushes the buffered tool calls and reports the usage
parseAndEmitStreamChunk(parts, finish, hasUsage, buffered) ==
  LET r == parseParts(parts, buffered, <<>>)
      flush == IF finish /\ r.toolCalls # <<>>
               THEN <<[NoEventFields EXCEPT !.tool_calls = r.toolCalls] @@ [type |-> "tool_calls"]>>
               ELSE <<>>
      usage == IF finish /\ hasUsage THEN <<NoEventFields @@ [type |-> "usage"]>> ELSE <<>>
  IN [toolCalls |-> IF finish /\ r.toolCalls # <<>> THEN <<>> ELSE r.toolCalls,
      events |-> r.events \o flush \o usage]

(* ------------------- the handlers' fake-non-stream branch ------------- *)
Dialects == {"openai", "gemini", "claude"}

NothingCollected == [content |-> <<>>, reasoningContent |-> <<>>, toolCalls |-> <<>>,
                     usageData |-> FALSE]

RECURSIVE collect(_, _)
\* The callback of the fake-non-stream branch, applied to the events in order
collect(acc, evs) ==
  IF evs = <<>> THEN acc
  ELSE LET ev == Head(evs) IN
    collect(IF ev.type = "usage" THEN [acc EXCEPT !.usageData = TRUE]
            ELSE IF ev.type = "reasoning"
            THEN [acc EXCEPT !.reasoningContent = @ \o ev.text]
            ELSE IF ev.type = "tool_calls"
            THEN [acc EXCEPT !.toolCalls = @ \o ev.tool_calls]
            ELSE IF ev.type = "text" THEN [acc EXCEPT !.content = @ \o ev.text]
            ELSE acc,
            Tail(evs))

\* createOpenAIChatCompletionResponse: message.content, reasoning_content
\* (left out when empty), tool_calls (left out when empty)
createOpenAIChatCompletionResponse(c) ==
  [content |-> c.content,
   reasoning_content |-> c.reasoningContent,
   tool_calls |-> [k \in 1..Len(c.toolCalls) |-> c.toolCalls[k].name]]

RECURSIVE functionCallParts(_)
\* createGeminiResponse's forEach: a tool call whose arguments do not parse
\* is skipped by the empty catch
functionCallParts(toolCalls) ==
  IF toolCalls = <<>> THEN <<>>
  ELSE (IF JsonParses(Head(toolCalls).arguments)
        THEN <<[kind |-> "functionCall", text |-> <<>>, name |-> Head(toolCalls).name]>>
        ELSE <<>>) \o functionCallParts(Tail(toolCalls))

\* createGeminiResponse: candidates[0].content.parts
createGeminiResponse(c) ==
  (IF c.reasoningContent # <<>>
   THEN <<[kind |-> "thought", text |-> c.reasoningContent, name |-> ""]>> ELSE <<>>)
  \o (IF c.content # <<>>
      THEN <<[kind |-> "text", text |-> c.content, name |-> ""]>> ELSE <<>>)
  \o functionCallParts(c.toolCalls)

\* createClaudeResponse: the content blocks; a tool call whose arguments do
\* not parse becomes a tool_use block with input {}
createClaudeResponse(c) ==
  (IF c.reasoningContent # <<>>
   THEN <<[kind |-> "thinking", text |-> c.reasoningContent, name |-> ""]>> ELSE <<>>)
  \o (IF c.content # <<>>
      THEN <<[kind |-> "text", text |-> c.content, name |-> ""]>> ELSE <<>>)
  \o [k \in 1..Len(c.toolCalls) |->
        [kind |-> "tool_use", text |-> <<>>, name |-> c.toolCalls[k].name]]

\* What the fake-non-stream branch leaves unchanged
FnsFrame == UNCHANGED <<mgrVars, retryVars, lineVars, errorVars, writerVars, sigVars, toolVars, orderVars, deliveryVars, connVars, startupVars, adminStoreVars, conversionVars, turnVars, thoughtVars, accountVars, cliVars, routeVars, chatVars>>

\* A non-stream request arrives with config.fakeNonStream: the handler calls
\* the streaming API with its collecting callback
FakeNonStreamStart(d) ==
  /\ fnsPc = "idle"
  /\ fnsPc' = "streaming"
  /\ dialect' = d
  /\ parserToolCalls' = <<>>
  /\ frameCount' = 0
  /\ events' = <<>>
  /\ collected' = NothingCollected
  /\ body' = <<>>
  /\ FnsFrame

\* One upstream frame is parsed and its events are collected; the streaming
\* API returns after the finishReason frame
FakeNonStreamFrame(parts, finish, hasUsage) ==
  /\ fnsPc = "streaming"
  /\ frameCount < MaxFrames
  /\ finish \/ frameCount + 1 < MaxFrames
  /\ LET r == parseAndEmitStreamChunk(parts, finish, hasUsage, parserToolCalls)
         c == collect(collected, r.events)
     IN /\ parserToolCalls' = r.toolCalls
        /\ events' = events \o r.events
        /\ collected' = c
        /\ fnsPc' = IF finish THEN "done" ELSE "streaming"
        /\ body' = IF ~finish THEN <<>>
                   ELSE IF dialect = "openai"
                   THEN <<createOpenAIChatCompletionResponse(c)>>
                   ELSE IF dialect = "gemini" THEN createGeminiResponse(c)
                   ELSE createClaudeResponse(c)
  /\ frameCount' = frameCount + 1
  /\ UNCHANGED dialect
  /\ FnsFrame

\* The response was sent
FakeNonStreamEnd ==
  /\ fnsPc = "done"
  /\ fnsPc' = "idle"
  /\ parserToolCalls' = <<>>
  /\ frameCount' = 0
  /\ events' = <<>>
  /\ collected' = NothingCollected
  /\ body' = <<>>
  /\ UNCHANGED dialect
  /\ FnsFrame

(* ----------------------- the handlers' error answers ------------------ *)
\* The Antigravity handlers and the /cli handler
Handlers == {"openai", "gemini", "claude", "cli"}

\* Where a request fails: the required-field check, the model check, no
\* account available (getToken returns null), or the upstream call
Failures == {"validation", "model", "no_token", "upstream"}

\* error.rawBody of an upstream error: none, a JSON error object, other text
RawBodies == {"none", "json", "text"}

UpstreamErrorStatuses == {400, 401, 403, 429, 500}

BadRequest == 400
InternalError == 500

\* res.json({ error: message }): the error member is a string
stringError == [topKeys |-> {"error"}, type |-> "", errorKeys |-> {}, errorType |-> "", code |-> 0]

\* buildOpenAIErrorPayload(error, statusCode)
buildOpenAIErrorPayload(rawBody, statusCode) ==
  [topKeys |-> {"error"}, type |-> "", errorKeys |-> {"message", "type", "code"},
   errorType |-> IF rawBody = "none" THEN "server_error" ELSE "upstream_api_error",
   code |-> statusCode]

\* buildGeminiErrorPayload(error, statusCode)
buildGeminiErrorPayload(rawBody, statusCode) ==
  [topKeys |-> {"error"}, type |-> "", errorKeys |-> {"code", "message", "status"},
   errorType |-> "INTERNAL", code |-> statusCode]

\* buildClaudeErrorPayload(error, statusCode)
buildClaudeErrorPayload(rawBody, statusCode) ==
  [topKeys |-> {"type", "error"}, type |-> "error", errorKeys |-> {"type", "message"},
   errorType |-> IF statusCode = 401 THEN "authentication_error"
                 ELSE IF statusCode = 429 THEN "rate_limit_error"
                 ELSE IF statusCode = 400 THEN "invalid_request_error"
                 ELSE "api_error",
   code |-> 0]

\* The status and raw body of the error a failure throws
thrownStatus(failure, status) == IF failure = "upstream" THEN status ELSE InternalError
thrownRawBody(failure, rawBody) == IF failure = "upstream" THEN rawBody ELSE "none"

\* handleOpenAIRequest's answers before the first byte
handleOpenAIError(failure, status, rawBody) ==
  IF failure \in {"validation", "model"}
  THEN [status |-> BadRequest, body |-> stringError]
  ELSE [status |-> thrownStatus(failure, status),
        body |-> buildOpenAIErrorPayload(thrownRawBody(failure, rawBody),
                                         thrownStatus(failure, status))]

\* handleGeminiRequest's answers before the first byte
handleGeminiError(failure, status, rawBody) ==
  IF failure = "validation"
  THEN [status |-> BadRequest, body |-> buildGeminiErrorPayload("none", BadRequest)]
  ELSE [status |-> thrownStatus(failure, status),
        body |-> buildGeminiErrorPayload(thrownRawBody(failure, rawBody),
                                         thrownStatus(failure, status))]

\* handleClaudeRequest's answers before the first byte
handleClaudeError(failure, status, rawBody) ==
  IF failure \in {"validation", "model"}
  THEN [status |-> BadRequest, body |-> buildClaudeErrorPayload("none", BadRequest)]
  ELSE [status |-> thrownStatus(failure, status),
        body |-> buildClaudeErrorPayload(thrownRawBody(failure, rawBody),
                                         thrownStatus(failure, status))]

\* handleGeminiCliRequest's answers before the first byte, whatever the dialect
handleGeminiCliError(failure, status, rawBody) ==
  IF failure = "validation"
  THEN [status |-> BadRequest, body |-> stringError]
  ELSE [status |-> thrownStatus(failure, status),
        body |-> buildOpenAIErrorPayload(thrownRawBody(failure, rawBody),
                                         thrownStatus(failure, status))]

NoRequest == [handler |-> "", dialect |-> "", failure |-> "", status |-> 0, rawBody |-> ""]
NoResponse == [status |-> 0, body |-> stringError]

\* A non-stream request of dialect d fails in handler h and is answered
HandlerFails(h, d, failure, status, rawBody) ==
  /\ h = "cli" \/ d = h
  /\ failure = "model" => h \in {"openai", "claude"}
  /\ failure # "upstream" => (status = InternalError /\ rawBody = "none")
  /\ failedRequest' = [handler |-> h, dialect |-> d, failure |-> failure,
                       status |-> status, rawBody |-> rawBody]
  /\ errorResponse' = IF h = "openai" THEN handleOpenAIError(failure, status, rawBody)
                      ELSE IF h = "gemini" THEN handleGeminiError(failure, status, rawBody)
                      ELSE IF h = "claude" THEN handleClaudeError(failure, status, rawBody)
                      ELSE handleGeminiCliError(failure, status, rawBody)
  /\ UNCHANGED <<mgrVars, retryVars, lineVars, parserVars, fnsVars, writerVars, sigVars, toolVars, orderVars, deliveryVars, connVars, startupVars, adminStoreVars, conversionVars, turnVars, thoughtVars, accountVars, cliVars, routeVars, chatVars>>

(* ------------------------- the stream writers ------------------------- *)
\* The tool calls of a tool_calls event or of a non-stream answer: calls of
\* one tool, with and without args
ToolCallValues ==
  {convertToToolCall(part) : part \in {q \in Parts : q.kind = "functionCall" /\ q.name = "f"}}
ToolCallLists == UNION {[1..n -> ToolCallValues] : n \in 1..MaxParts}

\* The events the stream parser gives to the callback
WriterEvents ==
  {[NoEventFields EXCEPT !.text = t] @@ [type |-> "reasoning"] : t \in Str}
    \cup {[NoEventFields EXCEPT !.text = t] @@ [type |-> "text"] : t \in Str}
    \cup {[NoEventFields EXCEPT !.tool_calls = l] @@ [type |-> "tool_calls"] : l \in ToolCallLists}
    \cup {NoEventFields @@ [type |-> "usage"]}

\* The code that writes a stream: the /cli writer, or the callbacks of
\* handleOpenAIRequest and handleClaudeRequest
WriterHandlers == {"cli", "antigravity"}

\* A frame written to res: a typed Claude event, an OpenAI chunk (kind: the
\* key of its delta), a Gemini chunk (kind: the key of its parts) or [DONE]
NoFrame == [type |-> "", index |-> 0, kind |-> "", text |-> <<>>, tool_calls |-> <<>>,
            finish |-> "", usage |-> FALSE]

\* The feature prefixes of a /cli model name ('假流式/', '流式抗截断/'), and the
\* model names of the requests: a name, with or without one prefix in front
FakeStreamPrefix == "fake-stream/"
AntiTruncationPrefix == "anti-truncation/"
ModelNames == {<<"gemini-2.5-pro">>, <<FakeStreamPrefix, "gemini-2.5-pro">>,
               <<AntiTruncationPrefix, "gemini-2.5-pro">>}

\* isFakeStreamingModel(modelName): modelName.startsWith('假流式/')
isFakeStreamingModel(modelName) == modelName # <<>> /\ modelName[1] = FakeStreamPrefix

NoWriter == [handler |-> "", format |-> "", model |-> <<>>, fake |-> FALSE,
             hasToolCall |-> FALSE, usageData |-> FALSE, isFirstChunk |-> TRUE]

\* new ClaudeStreamState(model)
NewClaudeStreamState == [blockIndex |-> 0, hasStarted |-> FALSE, hasThinkingBlock |-> FALSE,
                         hasTextBlock |-> FALSE]

\* The locals of handleClaudeRequest's stream branch
NewClaudeBlock == [contentIndex |-> 0, currentBlockType |-> "", reasoningSent |-> FALSE]

\* buildApiUrl(stream): the upstream method of the URL
buildApiUrlSwapped(stream) == IF stream THEN "generateContent" ELSE "streamGenerateContent"

buildApiUrl(stream) == IF stream THEN "streamGenerateContent" ELSE "generateContent"

\* The methods of ClaudeStreamState, on r = [cs |-> the state, out |-> the
\* frames written so far]: each writes the event it creates
createMessageStart(r) ==
  [cs |-> [r.cs EXCEPT !.hasStarted = TRUE],
   out |-> Append(r.out, [NoFrame EXCEPT !.type = "message_start"])]

createThinkingBlockStart(r) ==
  [cs |-> [r.cs EXCEPT !.hasThinkingBlock = TRUE],
   out |-> Append(r.out, [NoFrame EXCEPT !.type = "content_block_start",
                                         !.index = r.cs.blockIndex, !.kind = "thinking"])]

createThinkingDelta(r, thinking) ==
  [r EXCEPT !.out = Append(@, [NoFrame EXCEPT !.type = "content_block_delta",
                                              !.index = r.cs.blockIndex,
                                              !.kind = "thinking_delta", !.text = thinking])]

createBlockStop(r) ==
  [cs |-> [r.cs EXCEPT !.blockIndex = @ + 1],
   out |-> Append(r.out, [NoFrame EXCEPT !.type = "content_block_stop",
                                         !.index = r.cs.blockIndex])]

createTextBlockStart(r) ==
  [cs |-> [r.cs EXCEPT !.hasTextBlock = TRUE],
   out |-> Append(r.out, [NoFrame EXCEPT !.type = "content_block_start",
                                         !.index = r.cs.blockIndex, !.kind = "text"])]

createTextDelta(r, text) ==
  [r EXCEPT !.out = Append(@, [NoFrame EXCEPT !.type = "content_block_delta",
                                              !.index = r.cs.blockIndex,
                                              !.kind = "text_delta", !.text = text])]

createToolUseBlockStart(r, toolCall) ==
  [r EXCEPT !.out = Append(@, [NoFrame EXCEPT !.type = "content_block_start",
                                              !.index = r.cs.blockIndex, !.kind = "tool_use",
                                              !.tool_calls = <<toolCall>>])]

createToolUseInputDelta(r, toolCall) ==
  [r EXCEPT !.out = Append(@, [NoFrame EXCEPT !.type = "content_block_delta",
                                              !.index = r.cs.blockIndex,
                                              !.kind = "input_json_delta",
                                              !.tool_calls = <<toolCall>>])]

createMessageDelta(r, stopReason, usage) ==
  [r EXCEPT !.out = Append(@, [NoFrame EXCEPT !.type = "message_delta",
                                              !.finish = stopReason, !.usage = usage])]

createMessageStop(r) ==
  [r EXCEPT !.out = Append(@, [NoFrame EXCEPT !.type = "message_stop"])]

RECURSIVE writeToolUseBlocks(_, _)
\* The loop of the Claude writers over the tool calls: one block for each
writeToolUseBlocks(r, toolCalls) ==
  IF toolCalls = <<>> THEN r
  ELSE writeToolUseBlocks(
         createBlockStop(createToolUseInputDelta(
           createToolUseBlockStart(r, Head(toolCalls)), Head(toolCalls))),
         Tail(toolCalls))

\* onEvent(data) of createGeminiCliStreamWriter for format 'claude'
claudeOnEvent(cs, data) ==
  LET r0 == [cs |-> cs, out |-> <<>>]
      r1 == IF ~cs.hasStarted THEN createMessageStart(r0) ELSE r0
  IN IF data.type = "usage" THEN r1
     ELSE IF data.type = "reasoning"
     THEN createThinkingDelta(IF ~r1.cs.hasThinkingBlock THEN createThinkingBlockStart(r1)
                              ELSE r1,
                              data.text)
     ELSE IF data.type = "tool_calls"
     THEN LET s1 == createBlockStop(r1)
              r2 == IF r1.cs.hasThinkingBlock /\ ~r1.cs.hasTextBlock
                    THEN [s1 EXCEPT !.cs.hasThinkingBlock = FALSE]
                    ELSE r1
              s2 == createBlockStop(r2)
              r3 == IF r2.cs.hasTextBlock THEN [s2 EXCEPT !.cs.hasTextBlock = FALSE] ELSE r2
          IN writeToolUseBlocks(r3, data.tool_calls)
     ELSE IF data.text # <<>>
     THEN LET s1 == createBlockStop(r1)
              r2 == IF r1.cs.hasThinkingBlock /\ ~r1.cs.hasTextBlock
                    THEN [s1 EXCEPT !.cs.hasThinkingBlock = FALSE]
                    ELSE r1
              r3 == IF ~r2.cs.hasTextBlock THEN createTextBlockStart(r2) ELSE r2
          IN createTextDelta(r3, data.text)
     ELSE r1

\* finalize() of createGeminiCliStreamWriter for format 'claude'
claudeFinalize(cs, hasToolCall, usageData) ==
  LET r0 == [cs |-> cs, out |-> <<>>]
      r1 == IF cs.hasTextBlock \/ cs.hasThinkingBlock THEN createBlockStop(r0) ELSE r0
  IN createMessageStop(
       createMessageDelta(r1, IF hasToolCall THEN "tool_use" ELSE "end_turn", usageData))

\* An OpenAI chunk, and a Gemini chunk
createOpenAIStreamChunk(kind, text, toolCalls) ==
  [NoFrame EXCEPT !.type = "chunk", !.kind = kind, !.text = text, !.tool_calls = toolCalls]

createGeminiStreamChunk(kind, text, toolCalls) ==
  [NoFrame EXCEPT !.type = "gemini_chunk", !.kind = kind, !.text = text,
                  !.tool_calls = toolCalls]

\* onEvent(data) of createGeminiCliStreamWriter for format 'openai': the
\* chunks it writes
openaiOnEvent(isFirstChunk, data) ==
  (IF isFirstChunk THEN <<createOpenAIStreamChunk("role", <<>>, <<>>)>> ELSE <<>>)
    \o (IF data.type = "usage" THEN <<>>
        ELSE IF data.type = "reasoning"
        THEN <<createOpenAIStreamChunk("reasoning_content", data.text, <<>>)>>
        ELSE IF data.type = "tool_calls"
        THEN <<createOpenAIStreamChunk("tool_calls", <<>>, data.tool_calls)>>
        ELSE <<createOpenAIStreamChunk("content", data.text, <<>>)>>)

\* The final OpenAI chunk: an empty delta, finish_reason and usage
openaiFinalChunk(hasToolCall, usageData) ==
  [createOpenAIStreamChunk("", <<>>, <<>>) EXCEPT
     !.finish = IF hasToolCall THEN "tool_calls" ELSE "stop", !.usage = usageData]

\* onEvent(data) of createGeminiCliStreamWriter for format 'gemini'
geminiOnEvent(data) ==
  IF data.type = "usage" THEN <<>>
  ELSE IF data.type = "reasoning" THEN <<createGeminiStreamChunk("thought", data.text, <<>>)>>
  ELSE IF data.type = "tool_calls"
  THEN <<createGeminiStreamChunk("functionCall", <<>>, data.tool_calls)>>
  ELSE IF data.text # <<>> THEN <<createGeminiStreamChunk("text", data.text, <<>>)>>
  ELSE <<>>

\* The final Gemini chunk: no parts, finishReason STOP, usageMetadata if any
geminiFinalChunk(usageData) ==
  [createGeminiStreamChunk("", <<>>, <<>>) EXCEPT !.finish = "STOP", !.usage = usageData]

\* The callback of handleOpenAIRequest's stream branch: the chunks it writes
handleOpenAIRequestOnEvent(data) ==
  IF data.type = "usage" THEN <<>>
  ELSE IF data.type = "reasoning"
  THEN <<createOpenAIStreamChunk("reasoning_content", data.text, <<>>)>>
  ELSE IF data.type = "tool_calls"
  THEN <<createOpenAIStreamChunk("tool_calls", <<>>, data.tool_calls)>>
  ELSE <<createOpenAIStreamChunk("content", data.text, <<>>)>>

\* A Claude event written by handleClaudeRequest
createClaudeStreamEvent(type, index, kind, text, toolCalls) ==
  [NoFrame EXCEPT !.type = type, !.index = index, !.kind = kind, !.text = text,
                  !.tool_calls = toolCalls]

RECURSIVE handleClaudeToolCalls(_, _)
\* handleClaudeRequest's loop over the tool calls: a call whose arguments do
\* not parse is skipped
handleClaudeToolCalls(r, toolCalls) ==
  IF toolCalls = <<>> THEN r
  ELSE LET tc == Head(toolCalls)
           i == r.cb.contentIndex
       IN handleClaudeToolCalls(
            IF JsonParses(tc.arguments)
            THEN [cb |-> [r.cb EXCEPT !.contentIndex = i + 1],
                  out |-> r.out \o
                    <<createClaudeStreamEvent("content_block_start", i, "tool_use", <<>>, <<tc>>),
                      createClaudeStreamEvent("content_block_delta", i, "input_json_delta",
                                              <<>>, <<tc>>),
                      createClaudeStreamEvent("content_block_stop", i, "", <<>>, <<>>)>>]
            ELSE r,
            Tail(toolCalls))

\* The callback of handleClaudeRequest's stream branch, on its locals cb
handleClaudeRequestOnEvent(cb, data) ==
  LET r0 == [cb |-> cb, out |-> <<>>]
      stop == createClaudeStreamEvent("content_block_stop", cb.contentIndex, "", <<>>, <<>>)
  IN IF data.type = "usage" THEN r0
     ELSE IF data.type = "reasoning"
     THEN LET r1 == IF ~cb.reasoningSent
                    THEN [cb |-> [cb EXCEPT !.currentBlockType = "thinking",
                                            !.reasoningSent = TRUE],
                          out |-> <<createClaudeStreamEvent("content_block_start",
                                      cb.contentIndex, "thinking", <<>>, <<>>)>>]
                    ELSE r0
          IN [r1 EXCEPT !.out = Append(@, createClaudeStreamEvent("content_block_delta",
                                           cb.contentIndex, "thinking_delta", data.text, <<>>))]
     ELSE IF data.type = "tool_calls"
     THEN LET r1 == IF cb.currentBlockType # ""
                    THEN [cb |-> [cb EXCEPT !.contentIndex = @ + 1], out |-> <<stop>>]
                    ELSE r0
              r2 == handleClaudeToolCalls(r1, data.tool_calls)
          IN [r2 EXCEPT !.cb.currentBlockType = ""]
     ELSE LET r1 == IF cb.currentBlockType = "thinking"
                    THEN [cb |-> [cb EXCEPT !.contentIndex = @ + 1, !.currentBlockType = ""],
                          out |-> <<stop>>]
                    ELSE r0
              r2 == IF r1.cb.currentBlockType # "text"
                    THEN [cb |-> [r1.cb EXCEPT !.currentBlockType = "text"],
                          out |-> Append(r1.out,
                                    createClaudeStreamEvent("content_block_start",
                                      r1.cb.contentIndex, "text", <<>>, <<>>))]
                    ELSE r1
          IN [r2 EXCEPT !.out = Append(@, createClaudeStreamEvent("content_block_delta",
                                           r2.cb.contentIndex, "text_delta", data.text, <<>>))]

\* The end of handleClaudeRequest's stream branch
handleClaudeRequestEnd(cb, hasToolCall, usageData) ==
  (IF cb.currentBlockType # ""
   THEN <<createClaudeStreamEvent("content_block_stop", cb.contentIndex, "", <<>>, <<>>)>>
   ELSE <<>>)
    \o <<[NoFrame EXCEPT !.type = "message_delta",
                         !.finish = IF hasToolCall THEN "tool_use" ELSE "end_turn",
                         !.usage = usageData],
         [NoFrame EXCEPT !.type = "message_stop"]>>

\* writeGeminiCliFakeStreamResponse: the frames it writes for the non-stream
\* answer
writeGeminiCliFakeStreamResponse(format, content, reasoningContent, toolCalls, usage) ==
  IF format = "gemini"
  THEN (IF reasoningContent # <<>>
        THEN <<createGeminiStreamChunk("thought", reasoningContent, <<>>)>> ELSE <<>>)
         \o (IF toolCalls # <<>>
             THEN <<createGeminiStreamChunk("functionCall", <<>>, toolCalls)>> ELSE <<>>)
         \o (IF content # <<>> THEN <<createGeminiStreamChunk("text", content, <<>>)>>
             ELSE <<>>)
         \o <<geminiFinalChunk(usage)>>
  ELSE IF format = "claude"
  THEN LET r0 == createMessageStart([cs |-> NewClaudeStreamState, out |-> <<>>])
           r1 == IF reasoningContent # <<>>
                 THEN createBlockStop(createThinkingDelta(createThinkingBlockStart(r0),
                                                          reasoningContent))
                 ELSE r0
           r2 == writeToolUseBlocks(r1, toolCalls)
           r3 == IF content # <<>>
                 THEN createBlockStop(createTextDelta(createTextBlockStart(r2), content))
                 ELSE r2
       IN createMessageStop(
            createMessageDelta(r3, IF toolCalls # <<>> THEN "tool_use" ELSE "end_turn",
                               usage)).out
  ELSE (IF reasoningContent # <<>>
        THEN <<createOpenAIStreamChunk("reasoning_content", reasoningContent, <<>>)>>
        ELSE <<>>)
         \o (IF toolCalls # <<>>
             THEN <<createOpenAIStreamChunk("tool_calls", <<>>, toolCalls)>> ELSE <<>>)
         \o (IF content # <<>> THEN <<createOpenAIStreamChunk("content", content, <<>>)>>
             ELSE <<>>)
         \o <<openaiFinalChunk(toolCalls # <<>>, usage)>>

\* endStream(res): the terminator, then the response ends
Done == [NoFrame EXCEPT !.type = "[DONE]"]

\* What the stream writers leave unchanged
WriterFrame == UNCHANGED <<mgrVars, retryVars, lineVars, parserVars, fnsVars, errorVars, sigVars, toolVars, orderVars, deliveryVars, connVars, startupVars, adminStoreVars, conversionVars, turnVars, thoughtVars, accountVars, cliVars, routeVars, chatVars>>

\* A request with stream = true arrives: at /cli in format f for a model
\* name with or without a feature prefix, or at the OpenAI or Claude route,
\* which know no prefixes; the handler makes its upstream call
\* (handleClaudeRequest first writes message_start)
StreamRequest(h, f, model) ==
  /\ writerPc \in {"idle", "ended"}
  /\ h = "antigravity" => (f \in {"openai", "claude"} /\ Len(model) = 1)
  /\ writerPc' = "streaming"
  /\ writer' = [NoWriter EXCEPT !.handler = h, !.format = f, !.model = model,
                                !.fake = h = "cli" /\ isFakeStreamingModel(model)]
  /\ claudeState' = NewClaudeStreamState
  /\ claudeBlock' = NewClaudeBlock
  /\ written' = IF h = "antigravity" /\ f = "claude"
                THEN <<[NoFrame EXCEPT !.type = "message_start"]>>
                ELSE <<>>
  /\ seen' = <<>>
  /\ upstreamCalls' = <<buildApiUrl(~(h = "cli" /\ isFakeStreamingModel(model)))>>
  /\ WriterFrame

\* The upstream answers 429 before any event and with429Retry calls again
StreamRetry ==
  /\ writerPc = "streaming"
  /\ seen = <<>>
  /\ Len(upstreamCalls) <= MaxRetryTimes
  /\ upstreamCalls' = Append(upstreamCalls, buildApiUrl(~writer.fake))
  /\ UNCHANGED <<writerPc, writer, claudeState, claudeBlock, written, seen>>
  /\ WriterFrame

\* The stream parser gives an event to the callback of the handler
OnEvent(data) ==
  /\ writerPc = "streaming"
  /\ ~writer.fake
  /\ Len(seen) < MaxEvents
  /\ seen' = Append(seen, data)
  /\ writer' = [writer EXCEPT
                  !.hasToolCall = @ \/ data.type = "tool_calls",
                  !.usageData = @ \/ data.type = "usage",
                  !.isFirstChunk = @ /\ ~(writer.handler = "cli" /\ writer.format = "openai")]
  /\ IF writer.handler = "cli" /\ writer.format = "claude"
     THEN LET r == claudeOnEvent(claudeState, data)
          IN /\ claudeState' = r.cs
             /\ written' = written \o r.out
             /\ UNCHANGED claudeBlock
     ELSE IF writer.format = "claude"
     THEN LET r == handleClaudeRequestOnEvent(claudeBlock, data)
          IN /\ claudeBlock' = r.cb
             /\ written' = written \o r.out
             /\ UNCHANGED claudeState
     ELSE /\ written' = written \o
               (IF writer.handler = "antigravity" THEN handleOpenAIRequestOnEvent(data)
                ELSE IF writer.format = "openai" THEN openaiOnEvent(writer.isFirstChunk, data)
                ELSE geminiOnEvent(data))
          /\ UNCHANGED <<claudeState, claudeBlock>>
  /\ UNCHANGED <<writerPc, upstreamCalls>>
  /\ WriterFrame

\* The upstream stream ended: writer.finalize(), or the end of the handler's
\* stream branch
Finalize ==
  /\ writerPc = "streaming"
  /\ ~writer.fake
  /\ writerPc' = "finalized"
  /\ written' = written \o
       (IF writer.handler = "cli" /\ writer.format = "claude"
        THEN claudeFinalize(claudeState, writer.hasToolCall, writer.usageData).out
        ELSE IF writer.format = "claude"
        THEN handleClaudeRequestEnd(claudeBlock, writer.hasToolCall, writer.usageData)
        ELSE IF writer.format = "openai"
        THEN <<openaiFinalChunk(writer.hasToolCall, writer.usageData)>>
        ELSE <<geminiFinalChunk(writer.usageData)>>)
  /\ claudeState' = IF writer.handler = "cli" /\ writer.format = "claude"
                    THEN claudeFinalize(claudeState, writer.hasToolCall, writer.usageData).cs
                    ELSE claudeState
  /\ UNCHANGED <<writer, claudeBlock, seen, upstreamCalls>>
  /\ WriterFrame

\* The non-stream call of a fake-stream request answered: the collected
\* fields are replayed as frames
FakeStreamResponse(content, reasoningContent, toolCalls, usage) ==
  /\ writerPc = "streaming"
  /\ writer.fake
  /\ writerPc' = "finalized"
  /\ written' = writeGeminiCliFakeStreamResponse(writer.format, content, reasoningContent,
                                                 toolCalls, usage)
  /\ writer' = [writer EXCEPT !.hasToolCall = toolCalls # <<>>, !.usageData = usage]
  /\ seen' = <<[text |-> reasoningContent, tool_calls |-> <<>>, type |-> "reasoning"],
               [text |-> <<>>, tool_calls |-> toolCalls, type |-> "tool_calls"],
               [text |-> content, tool_calls |-> <<>>, type |-> "text"]>>
  /\ UNCHANGED <<claudeState, claudeBlock, upstreamCalls>>
  /\ WriterFrame

\* The response ends: endStream(res) at /cli and in handleOpenAIRequest,
\* res.end() in handleClaudeRequest
EndStream ==
  /\ writerPc = "finalized"
  /\ writerPc' = "ended"
  /\ written' = IF writer.handler = "antigravity" /\ writer.format = "claude" THEN written
                ELSE Append(written, Done)
  /\ UNCHANGED <<writer, claudeState, claudeBlock, seen, upstreamCalls>>
  /\ WriterFrame

(* ---------------------- thought-signature replay ---------------------- *)
\* The upstream models, the buckets of the cache, the signature the upstream
\* gives, the one a client sends back on a part, and the hardcoded signature
\* of a model (getThoughtSignatureForModel: the first model has one)
Models == {"m1", "m2"}
Buckets == {"reasoning", "tool"}
NoSig == ""
Sigs == {"SIG1"}
OwnSig == "OWN"
getThoughtSignatureForModel(model) == IF model = "m1" THEN "HARD" ELSE NoSig
SKIP_THOUGHT_SIGNATURE_VALIDATOR == "skip_thought_signature_validator"

\* The parts of an assistant turn of the incoming conversation: a thought
\* with or without signature, a function call with or without its own
\* signature, a standalone signature part
TurnParts ==
  {[kind |-> "thought", sig |-> NoSig],
   [kind |-> "thought", sig |-> OwnSig], [kind |-> "functionCall", sig |-> NoSig],
   [kind |-> "functionCall", sig |-> OwnSig], [kind |-> "signature", sig |-> OwnSig]}
Turns == UNION {[1..n -> TurnParts] : n \in 0..MaxParts}

NoUpstreamRequest == [dialect |-> "", model |-> "", hasTools |-> FALSE,
                      enableThinking |-> FALSE, cached |-> NoSig, parts |-> <<>>]

\* a || b on signatures
Or(a, b) == IF a # NoSig THEN a ELSE b

\* shouldCacheSignature({hasTools, isImageModel}) under the config flags
shouldCacheSignature(flags, hasTools, isImageModel) ==
  \/ flags.cacheAllSignatures
  \/ hasTools /\ flags.cacheToolSignatures
  \/ isImageModel /\ flags.cacheImageSignatures
  \/ ~hasTools /\ ~isImageModel /\ flags.cacheThinking

CacheFlags == [cacheAllSignatures : BOOLEAN, cacheToolSignatures : BOOLEAN,
               cacheImageSignatures : {FALSE}, cacheThinking : BOOLEAN]

\* getSignatureContext(null, model, hasTools): the cached signatures of the model
getSignatureContext(cache, model, hasTools) ==
  [reasoningSignature |-> cache[model]["reasoning"],
   toolSignature |-> IF hasTools THEN cache[model]["tool"] ELSE NoSig]

\* getGeminiCliSignatureContext(actualModelName, hasTools): the cached
\* signatures, else the hardcoded ones of the model, else the sentinel
getGeminiCliSignatureContext(cache, model, hasTools) ==
  LET cached == getSignatureContext(cache, model, hasTools)
      hardcoded == getThoughtSignatureForModel(model)
  IN
    IF cached.reasoningSignature # NoSig \/ cached.toolSignature # NoSig THEN cached
    ELSE IF hardcoded # NoSig
    THEN [reasoningSignature |-> hardcoded, toolSignature |-> hardcoded]
    ELSE [reasoningSignature |-> SKIP_THOUGHT_SIGNATURE_VALIDATOR,
          toolSignature |-> SKIP_THOUGHT_SIGNATURE_VALIDATOR]

NoContext == [reasoningSignature |-> NoSig, toolSignature |-> NoSig]

\* The parts of these kinds, in order
PartsOfKind(parts, kinds) == SelectSeq(parts, LAMBDA q : q.kind \in kinds)

\* Every part of the sequence with this signature
WithSig(parts, sig) == [i \in 1..Len(parts) |-> [parts[i] EXCEPT !.sig = sig]]

\* convertMessages, for an assistant message: the thought part of a thinking
\* model, the text, and a functionCall part for every tool call, each with
\* the tool signature of the context
convertMessages(turn, enableThinking, ctx) ==
  LET signature == Or(ctx.reasoningSignature, ctx.toolSignature)
      callSig == Or(ctx.toolSignature, Or(ctx.reasoningSignature,
                                          SKIP_THOUGHT_SIGNATURE_VALIDATOR))
  IN (IF enableThinking /\ signature # NoSig
      THEN <<[kind |-> "thought", sig |-> signature]>> ELSE <<>>)
       \o PartsOfKind(turn, {"text"})
       \o WithSig(PartsOfKind(turn, {"functionCall"}), callSig)

\* The tool signature a tool_use block is converted with: its own one first
claudeCallSig(part, ctx) ==
  Or(part.sig, Or(ctx.toolSignature, Or(ctx.reasoningSignature,
                                        SKIP_THOUGHT_SIGNATURE_VALIDATOR)))

\* convertClaudeMessages, for an assistant message
convertClaudeMessages(turn, enableThinking, ctx) ==
  LET thinking == PartsOfKind(turn, {"thought"})
      signed == SelectSeq(thinking, LAMBDA q : q.sig # NoSig)
      messageSignature == IF signed # <<>> THEN signed[1].sig ELSE NoSig
      signature == Or(messageSignature, Or(ctx.reasoningSignature, ctx.toolSignature))
      calls == PartsOfKind(turn, {"functionCall"})
  IN (IF enableThinking /\ signature # NoSig
      THEN <<[kind |-> "thought", sig |-> signature]>> ELSE <<>>)
       \o PartsOfKind(turn, {"text"})
       \o [i \in 1..Len(calls) |-> [calls[i] EXCEPT !.sig = claudeCallSig(calls[i], ctx)]]

\* parts.splice(i, 1)
RemoveAt(parts, i) == SubSeq(parts, 1, i - 1) \o SubSeq(parts, i + 1, Len(parts))

\* The last index with the property, 0 if there is none
LastIndex(parts, Test(_)) ==
  IF \E i \in 1..Len(parts) : Test(parts[i])
  THEN CHOOSE i \in 1..Len(parts) :
         Test(parts[i]) /\ \A j \in (i + 1)..Len(parts) : ~Test(parts[j])
  ELSE 0

RECURSIVE assignSignatures(_, _, _, _)
\* processGeminiModelThoughts' loop over the parts from index i on: a
\* functionCall or inlineData part without signature takes the next
\* standalone signature, else the signature of the context (the tool one
\* first for a functionCall, the reasoning one first for inlineData);
\* returns the parts and the number of standalone signatures used
assignSignatures(parts, i, standalone, ctx) ==
  IF i > Len(parts) THEN [parts |-> parts, used |-> 0]
  ELSE IF parts[i].kind \in {"functionCall", "inlineData"} /\ parts[i].sig = NoSig
  THEN IF standalone # <<>>
       THEN LET r == assignSignatures([parts EXCEPT ![i].sig = Head(standalone).sig],
                                      i + 1, Tail(standalone), ctx)
            IN [r EXCEPT !.used = @ + 1]
       ELSE assignSignatures(
              [parts EXCEPT ![i].sig =
                 IF parts[i].kind = "functionCall"
                 THEN Or(ctx.toolSignature, ctx.reasoningSignature)
                 ELSE Or(ctx.reasoningSignature, ctx.toolSignature)],
              i + 1, standalone, ctx)
  ELSE assignSignatures(parts, i + 1, standalone, ctx)

\* Every standalone signature part leaves the turn, used or not
removeAllStandalone(parts, n) == SelectSeq(parts, LAMBDA q : q.kind # "signature")

RECURSIVE removeUsed(_, _)
\* processGeminiModelThoughts' last loop: the first n standalone signature
\* parts leave the turn
removeUsed(parts, n) ==
  IF n = 0 \/ parts = <<>> THEN parts
  ELSE IF Head(parts).kind = "signature" THEN removeUsed(Tail(parts), n - 1)
  ELSE <<Head(parts)>> \o removeUsed(Tail(parts), n)

\* processGeminiModelThoughts(content, ...) on the parts of a model turn
processGeminiModelThoughts(turn, enableThinking, ctx) ==
  IF ~enableThinking
  THEN [i \in 1..Len(turn) |->
          IF turn[i].kind = "inlineData" /\ turn[i].sig = NoSig
          THEN [turn[i] EXCEPT !.sig = Or(ctx.reasoningSignature, ctx.toolSignature)]
          ELSE turn[i]]
  ELSE
    LET fallbackSig == Or(ctx.reasoningSignature, ctx.toolSignature)
        thoughtIndex == LastIndex(turn, LAMBDA q : q.kind = "thought" /\ q.sig = NoSig)
        signatureIndex == LastIndex(turn, LAMBDA q : q.kind = "signature")
        p1 == IF thoughtIndex # 0 /\ signatureIndex # 0
              THEN RemoveAt([turn EXCEPT ![thoughtIndex].sig = turn[signatureIndex].sig],
                            signatureIndex)
              ELSE IF thoughtIndex # 0
              THEN (IF fallbackSig # NoSig THEN [turn EXCEPT ![thoughtIndex].sig = fallbackSig]
                    ELSE turn)
              ELSE IF fallbackSig # NoSig
              THEN <<[kind |-> "thought", sig |-> fallbackSig]>> \o turn
              ELSE turn
        r == assignSignatures(p1, 1, PartsOfKind(p1, {"signature"}), ctx)
    IN removeUsed(r.parts, r.used)

\* What the signature cache and the converters leave unchanged
SigFrame == UNCHANGED <<mgrVars, retryVars, lineVars, parserVars, fnsVars, errorVars, writerVars, toolVars, orderVars, deliveryVars, connVars, startupVars, adminStoreVars, conversionVars, turnVars, thoughtVars, accountVars, cliVars, routeVars, chatVars>>

\* setSignature(sessionId, model, signature, content, {hasTools, isImageModel}):
\* stored in the bucket of the model if the gating admits it
setSignature(flags, model, signature, hasTools) ==
  /\ shouldCacheSignature(flags, hasTools, FALSE)
  /\ signatureCache' =
       [signatureCache EXCEPT ![model][IF hasTools THEN "tool" ELSE "reasoning"] = signature]
  /\ UNCHANGED upstreamRequest
  /\ SigFrame

\* convertToGeminiCli(request): a request of dialect d for the model, with or
\* without tools, is converted; turn is an assistant turn of its conversation
convertToGeminiCli(d, model, hasTools, enableThinking, turn) ==
  /\ d = "openai" => \A i \in 1..Len(turn) : turn[i] = [kind |-> "functionCall", sig |-> NoSig]
  /\ d = "claude" => \A i \in 1..Len(turn) : turn[i].kind # "signature"
  /\ LET ctx == getGeminiCliSignatureContext(signatureCache, model, hasTools)
     IN upstreamRequest' =
          [dialect |-> d, model |-> model, hasTools |-> hasTools,
           enableThinking |-> enableThinking,
           cached |-> signatureCache[model]["tool"],
           parts |-> IF d = "openai"
                     THEN convertMessages(turn, enableThinking,
                                          IF enableThinking \/ hasTools THEN ctx ELSE NoContext)
                     ELSE IF d = "claude"
                     THEN convertClaudeMessages(turn, enableThinking,
                                                IF enableThinking \/ hasTools THEN ctx
                                                ELSE NoContext)
                     ELSE IF enableThinking
                     THEN processGeminiModelThoughts(turn, enableThinking, ctx)
                     ELSE turn]
  /\ UNCHANGED signatureCache
  /\ SigFrame

(* --------------------------- tool names ------------------------------- *)
\* Tool names: one or two characters, a letter, a dot or an underscore; the
\* upstream accepts letters, digits, underscores and hyphens
NameChars == {"a", ".", "_"}
ToolNameValues == UNION {[1..n -> NameChars] : n \in 1..2}
NoName == <<>>

\* sanitizeToolName(name): every character outside the safe alphabet becomes
\* an underscore
sanitizeToolName(name) == [i \in 1..Len(name) |-> IF name[i] = "." THEN "_" ELSE name[i]]

SafeNames == {sanitizeToolName(name) : name \in ToolNameValues}

\* processToolName(name, sessionId, model): the safe name; a name that was
\* changed is remembered under its safe name
processToolName(cache, name) ==
  IF sanitizeToolName(name) # name THEN [cache EXCEPT ![sanitizeToolName(name)] = name]
  ELSE cache

\* getOriginalToolName(model, safeName), and the name convertToToolCall gives
\* to the tool call: the original one if the cache has it
getOriginalToolName(cache, safeName) == cache[safeName]
resolvedName(cache, safeName) ==
  IF getOriginalToolName(cache, safeName) # NoName THEN getOriginalToolName(cache, safeName)
  ELSE safeName

NoToolCallName == [declared |-> NoName, name |-> NoName]

ToolFrame == UNCHANGED <<mgrVars, retryVars, lineVars, parserVars, fnsVars, errorVars, writerVars, sigVars, orderVars, deliveryVars, connVars, startupVars, adminStoreVars, conversionVars, turnVars, thoughtVars, accountVars, cliVars, routeVars, chatVars>>

\* convertOpenAIToGeminiCli(request): convertTools sanitizes the declared
\* names; convertMessages passes the name of every tool call of the
\* conversation's assistant turns (declared tools called earlier) through
\* processToolName
ConvertTools(tools, called) ==
  /\ tools # {}
  /\ called \subseteq tools
  /\ declaredTools' = tools
  /\ toolNameCache' =
       [safe \in SafeNames |->
          IF \E name \in called : sanitizeToolName(name) = safe /\ sanitizeToolName(name) # name
          THEN CHOOSE name \in called : sanitizeToolName(name) = safe /\ sanitizeToolName(name) # name
          ELSE toolNameCache[safe]]
  /\ toolCallName' = NoToolCallName
  /\ ToolFrame

\* The upstream calls a declared tool by the name it was declared with (the
\* sanitized one); convertToToolCall gives the tool call its name
ToolCalled(tool) ==
  /\ tool \in declaredTools
  /\ toolCallName' = [declared |-> tool,
                      name |-> resolvedName(toolNameCache, sanitizeToolName(tool))]
  /\ UNCHANGED <<toolNameCache, declaredTools>>
  /\ ToolFrame

(* ------------------ a streamed request, end to end -------------------- *)
\* The parts of the upstream frames of a streamed answer: a thought, a text
\* and a call of a tool
StreamParts ==
  {[kind |-> "thought", text |-> <<"a">>, name |-> "", args |-> NoArgs],
   [kind |-> "text", text |-> <<"b">>, name |-> "", args |-> NoArgs],
   [kind |-> "functionCall", text |-> <<>>, name |-> "f", args |-> "object"]}
StreamPartLists == UNION {[1..n -> StreamParts] : n \in 0..MaxParts}

\* The callback of the handler for one event, on st = [w |-> the writer's
\* locals, cs, cb |-> the Claude states, out |-> the frames written so far]
onEvent(st, data) ==
  LET w == [st.w EXCEPT
              !.hasToolCall = @ \/ data.type = "tool_calls",
              !.usageData = @ \/ data.type = "usage",
              !.isFirstChunk = @ /\ ~(st.w.handler = "cli" /\ st.w.format = "openai")]
  IN IF st.w.handler = "cli" /\ st.w.format = "claude"
     THEN LET r == claudeOnEvent(st.cs, data)
          IN [st EXCEPT !.w = w, !.cs = r.cs, !.out = @ \o r.out]
     ELSE IF st.w.format = "claude"
     THEN LET r == handleClaudeRequestOnEvent(st.cb, data)
          IN [st EXCEPT !.w = w, !.cb = r.cb, !.out = @ \o r.out]
     ELSE [st EXCEPT !.w = w,
                     !.out = @ \o
                       (IF st.w.handler = "antigravity" THEN handleOpenAIRequestOnEvent(data)
                        ELSE IF st.w.format = "openai"
                        THEN openaiOnEvent(st.w.isFirstChunk, data)
                        ELSE geminiOnEvent(data))]

RECURSIVE onEvents(_, _)
\* The callback applied to the events of one frame, in the order the parser
\* emits them
onEvents(st, evs) ==
  IF evs = <<>> THEN st ELSE onEvents(onEvent(st, Head(evs)), Tail(evs))

OrderFrame == UNCHANGED <<mgrVars, retryVars, lineVars, fnsVars, errorVars, sigVars, toolVars, deliveryVars, connVars, startupVars, adminStoreVars, conversionVars, turnVars, thoughtVars, accountVars, cliVars, routeVars, chatVars>>

\* A request with stream = true arrives and generateStreamResponse starts
\* with a fresh parser state
StreamStart(h, f) ==
  /\ writerPc \in {"idle", "ended"}
  /\ h = "antigravity" => f \in {"openai", "claude"}
  /\ writerPc' = "streaming"
  /\ writer' = [NoWriter EXCEPT !.handler = h, !.format = f, !.model = <<"gemini-2.5-pro">>]
  /\ claudeState' = NewClaudeStreamState
  /\ claudeBlock' = NewClaudeBlock
  /\ written' = IF h = "antigravity" /\ f = "claude"
                THEN <<[NoFrame EXCEPT !.type = "message_start"]>>
                ELSE <<>>
  /\ seen' = <<>>
  /\ upstreamCalls' = <<buildApiUrl(TRUE)>>
  /\ parserToolCalls' = <<>>
  /\ frameCount' = 0
  /\ events' = <<>>
  /\ arrived' = <<>>
  /\ sinceFinish' = <<>>
  /\ OrderFrame

\* A data line of the upstream stream: parseAndEmitStreamChunk parses its
\* parts and gives its events to the callback of the handler, which writes
\* the frames
StreamChunk(parts, finish, hasUsage) ==
  /\ writerPc = "streaming"
  /\ ~writer.fake
  /\ frameCount < MaxFrames
  /\ LET r == parseAndEmitStreamChunk(parts, finish, hasUsage, parserToolCalls)
         st == onEvents([w |-> writer, cs |-> claudeState, cb |-> claudeBlock, out |-> written],
                        r.events)
     IN /\ parserToolCalls' = r.toolCalls
        /\ events' = events \o r.events
        /\ seen' = seen \o r.events
        /\ writer' = st.w
        /\ claudeState' = st.cs
        /\ claudeBlock' = st.cb
        /\ written' = st.out
  /\ frameCount' = frameCount + 1
  /\ arrived' = arrived \o parts
  /\ sinceFinish' = IF finish THEN <<>> ELSE sinceFinish \o parts
  /\ UNCHANGED <<writerPc, upstreamCalls>>
  /\ OrderFrame

(* ------------------ the handlers' errors in stream mode --------------- *)
\* res.statusCode when the handler never calls res.status
DefaultStatus == 200

NoDelivery == [handler |-> "", dialect |-> "", stream |-> FALSE, failure |-> "",
               status |-> 0, written |-> FALSE, framed |-> FALSE, httpStatus |-> 0,
               body |-> stringError]

\* The answer of a handler before the first byte, as status and JSON body
handlerError(h, failure, status, rawBody) ==
  IF h = "openai" THEN handleOpenAIError(failure, status, rawBody)
  ELSE IF h = "gemini" THEN handleGeminiError(failure, status, rawBody)
  ELSE IF h = "claude" THEN handleClaudeError(failure, status, rawBody)
  ELSE handleGeminiCliError(failure, status, rawBody)

\* The payload the catch of a handler's stream branch writes as a frame
streamErrorPayload(h, status, rawBody) ==
  IF h = "gemini" THEN buildGeminiErrorPayload(rawBody, status)
  ELSE IF h = "claude" THEN buildClaudeErrorPayload(rawBody, status)
  ELSE buildOpenAIErrorPayload(rawBody, status)

DeliveryFrame == UNCHANGED <<mgrVars, retryVars, lineVars, parserVars, fnsVars, errorVars, writerVars, sigVars, toolVars, orderVars, connVars, startupVars, adminStoreVars, conversionVars, turnVars, thoughtVars, accountVars, cliVars, routeVars, chatVars>>

\* A request of dialect d fails in handler h. The checks and getToken come
\* before the stream branch; the upstream call of a stream request fails
\* inside it, after setStreamHeaders, with or without bytes written before
\* (handleClaudeRequest has written message_start)
RequestFails(h, d, stream, sent, failure, status, rawBody) ==
  /\ h = "cli" \/ d = h
  /\ failure = "model" => h \in {"openai", "claude"}
  /\ failure # "upstream" => (status = InternalError /\ rawBody = "none")
  /\ sent => (stream /\ failure = "upstream")
  /\ (h = "claude" /\ stream /\ failure = "upstream") => sent
  /\ LET inStream == stream /\ failure = "upstream"
         answer == handlerError(h, failure, status, rawBody)
     IN errorDelivery' =
          [handler |-> h, dialect |-> d, stream |-> stream, failure |-> failure,
           status |-> status, written |-> sent, framed |-> inStream,
           httpStatus |-> IF inStream THEN DefaultStatus ELSE answer.status,
           body |-> IF inStream THEN streamErrorPayload(h, status, rawBody) ELSE answer.body]
  /\ DeliveryFrame

(* ------------------ the connection of a streaming request ------------- *)
ConnFrame == UNCHANGED <<mgrVars, retryVars, lineVars, parserVars, fnsVars, errorVars, writerVars, sigVars, toolVars, orderVars, deliveryVars, startupVars, adminStoreVars, conversionVars, turnVars, thoughtVars, accountVars, cliVars, routeVars, chatVars>>

\* A stream request: the handler starts the heartbeat (createHeartbeat also
\* registers the 'close' and 'finish' listeners of res), and
\* generateStreamResponse creates the line processor and starts to read the
\* upstream response
ConnStart ==
  /\ ~upstreamReading
  /\ clientClosed' = FALSE
  /\ heartbeatTimer' = "running"
  /\ lineBufferHeld' = TRUE
  /\ upstreamReading' = TRUE
  /\ streamLog' = <<>>
  /\ ConnFrame

\* The interval of createHeartbeat fires: a heartbeat is written unless the
\* response has ended
HeartbeatTick ==
  /\ heartbeatTimer = "running"
  /\ Len(streamLog) < MaxLog
  /\ streamLog' = Append(streamLog, "heartbeat")
  /\ UNCHANGED <<clientClosed, heartbeatTimer, lineBufferHeld, upstreamReading>>
  /\ ConnFrame

\* response.data emits 'data': processor.processChunk(chunk) parses the
\* lines and the callback writes the frames
UpstreamData ==
  /\ upstreamReading
  /\ Len(streamLog) < MaxLog
  /\ streamLog' = Append(streamLog, "chunk")
  /\ UNCHANGED <<clientClosed, heartbeatTimer, lineBufferHeld, upstreamReading>>
  /\ ConnFrame

\* The client closes the connection: res emits 'close', whose only listener
\* is the one of createHeartbeat
ClientCloses ==
  /\ upstreamReading
  /\ ~clientClosed
  /\ Len(streamLog) < MaxLog
  /\ clientClosed' = TRUE
  /\ heartbeatTimer' = "cleared"
  /\ streamLog' = Append(streamLog, "close")
  /\ UNCHANGED <<lineBufferHeld, upstreamReading>>
  /\ ConnFrame

\* response.data emits 'end' (or 'error'): processor.close() releases the
\* line buffer, and the handler clears the heartbeat and ends the response
UpstreamEnd ==
  /\ upstreamReading
  /\ upstreamReading' = FALSE
  /\ lineBufferHeld' = FALSE
  /\ heartbeatTimer' = "cleared"
  /\ UNCHANGED <<clientClosed, streamLog>>
  /\ ConnFrame

(* ------------------------ the startup batch refresh ------------------- *)
\* The stored accounts: enabled or not, with or without an access_token (the
\* import keeps an account that has only a refresh_token), expired or not
StoredAccounts == [enable : BOOLEAN, hasAccessToken : BOOLEAN, expired : BOOLEAN]
AccountFiles == [1..NumAccounts -> StoredAccounts]

\* The result of an account that is not part of the batch
NotRefreshed == "none"

StartupFrame == UNCHANGED <<mgrVars, retryVars, lineVars, parserVars, fnsVars, errorVars, writerVars, sigVars, toolVars, orderVars, deliveryVars, connVars, adminStoreVars, conversionVars, turnVars, thoughtVars, accountVars, cliVars, routeVars, chatVars>>

RECURSIVE disableBatch(_, _, _, _)
\* The loop over tokensToDisable, from stored position j on: disableToken
\* reads token.access_token.slice(-8) first, which throws for an account
\* without access_token; the catch of _initialize then empties this.tokens
disableBatch(file, toks, res, j) ==
  IF j > Len(file) THEN [file |-> file, tokens |-> toks]
  ELSE IF res[j] # "disable" THEN disableBatch(file, toks, res, j + 1)
  ELSE IF ~file[j].hasAccessToken THEN [file |-> file, tokens |-> <<>>]
  ELSE disableBatch([file EXCEPT ![j].enable = FALSE], FilterSeq(toks, {x \in 1..Len(file) : x # j}),
                    res, j + 1)

\* The batch settles when no refresh is pending: the 400/403 accounts are
\* disabled
settle(file, toks, res) ==
  IF \E j \in 1..Len(res) : res[j] = "pending"
  THEN [file |-> file, tokens |-> toks, pc |-> "pending"]
  ELSE disableBatch(file, toks, res, 1) @@ [pc |-> "done"]

\* _initialize over the account file: the enabled accounts become the active
\* list and the refreshes of the expired ones are sent together
StartupInitialize(file) ==
  /\ startupPc = "none"
  /\ LET toks == FilterSeq([j \in 1..Len(file) |-> j], {j \in 1..Len(file) : file[j].enable})
         res == [j \in 1..Len(file) |->
                   IF file[j].enable /\ file[j].expired THEN "pending" ELSE NotRefreshed]
         s == settle(file, toks, res)
     IN /\ accountFile' = s.file
        /\ startupTokens' = s.tokens
        /\ startupRes' = res
        /\ startupPc' = s.pc
  /\ StartupFrame

\* _refreshTokenSafe(token) resolves 'success': refreshToken has set the
\* account's access_token, expires_in and timestamp
StartupRefreshOk(j) ==
  /\ startupPc = "pending"
  /\ j \in 1..Len(startupRes)
  /\ startupRes[j] = "pending"
  /\ LET file == [accountFile EXCEPT ![j].hasAccessToken = TRUE, ![j].expired = FALSE]
         res == [startupRes EXCEPT ![j] = "success"]
         s == settle(file, startupTokens, res)
     IN /\ accountFile' = s.file
        /\ startupTokens' = s.tokens
        /\ startupRes' = res
        /\ startupPc' = s.pc
  /\ StartupFrame

\* _refreshTokenSafe(token) resolves 'disable' for 400/403 and rejects for
\* any other status
StartupRefreshFail(j, status) ==
  /\ startupPc = "pending"
  /\ j \in 1..Len(startupRes)
  /\ startupRes[j] = "pending"
  /\ LET res == [startupRes EXCEPT
                   ![j] = IF handleTokenError(status) = "disable" THEN "disable" ELSE "rejected"]
         s == settle(accountFile, startupTokens, res)
     IN /\ accountFile' = s.file
        /\ startupTokens' = s.tokens
        /\ startupRes' = res
        /\ startupPc' = s.pc
  /\ StartupFrame

\* The process ends and is started again
Restart ==
  /\ startupPc = "done"
  /\ accountFile' = <<>>
  /\ startupPc' = "none"
  /\ startupTokens' = <<>>
  /\ startupRes' = <<>>
  /\ StartupFrame

(* ------------------- the admin writes of the account file ------------- *)
\* An account of the file: absent, stored enabled, stored disabled
AccountStates == {"absent", "enabled", "disabled"}
TokenFiles == [Accounts -> AccountStates]

\* addToken, updateTokenById (here: enable = false), deleteTokenById
AdminOps == {"add", "update", "delete"}

NoAdminOp == [op |-> "", account |-> 0, allTokens |-> [a \in Accounts |-> "absent"]]

\* The list an operation writes: what it read, with its own change
merged(op, account, allTokens) ==
  IF op = "add" THEN [allTokens EXCEPT ![account] = "enabled"]
  ELSE IF op = "update" THEN [allTokens EXCEPT ![account] = "disabled"]
  ELSE [allTokens EXCEPT ![account] = "absent"]

AdminStoreFrame == UNCHANGED <<mgrVars, retryVars, lineVars, parserVars, fnsVars, errorVars, writerVars, sigVars, toolVars, orderVars, deliveryVars, connVars, startupVars, conversionVars, turnVars, thoughtVars, accountVars, cliVars, routeVars, chatVars>>

\* An admin request begins: const allTokens = await this.store.readAll().
\* Update and delete return at once for an account that is not in the list.
\* Requests that overlap are about different accounts
AdminReadAll(p, op, account) ==
  /\ adminOp[p] = NoAdminOp
  /\ \A q \in Procs : adminOp[q].account # account
  /\ \A e \in adminDone : (\E q \in Procs : adminOp[q] # NoAdminOp) => e.account # account
  /\ op = "add" => tokenFile[account] = "absent"
  /\ op # "add" => tokenFile[account] # "absent"
  /\ adminOp' = [adminOp EXCEPT ![p] = [op |-> op, account |-> account, allTokens |-> tokenFile]]
  /\ adminDone' = IF \A q \in Procs : adminOp[q] = NoAdminOp THEN {} ELSE adminDone
  /\ UNCHANGED tokenFile
  /\ AdminStoreFrame

\* The request resumes: await this.store.writeAll(list), then reload(),
\* which reads the file
AdminWriteAll(p) ==
  /\ adminOp[p] # NoAdminOp
  /\ tokenFile' = merged(adminOp[p].op, adminOp[p].account, adminOp[p].allTokens)
  /\ adminDone' = adminDone \cup {[op |-> adminOp[p].op, account |-> adminOp[p].account]}
  /\ adminOp' = [adminOp EXCEPT ![p] = NoAdminOp]
  /\ AdminStoreFrame

(* ------------------- tool messages of a conversation ------------------ *)
\* The ids of tool calls and the names of the functions called
CallIds == {"call_1", "call_2"}
FunctionNames == {<<"a", ".">>, <<"a">>}

\* toolCall.type: 'function', or left out
TypeValues == {"function", "absent"}

\* The messages: a user message, an assistant message with one tool call,
\* and a tool message with its tool_call_id, with or without a name
Messages ==
  {[role |-> "user", id |-> "", name |-> NoName, type |-> ""]}
    \cup {[role |-> "assistant", id |-> i, name |-> n, type |-> t] :
            i \in CallIds, n \in FunctionNames, t \in TypeValues}
    \cup {[role |-> "tool", id |-> i, name |-> n, type |-> ""] :
            i \in CallIds, n \in FunctionNames \cup {NoName}}

\* The parts of the contents
textPart == [kind |-> "text", id |-> "", name |-> NoName]
functionCallPart(id, name) == [kind |-> "functionCall", id |-> id, name |-> name]
functionResponsePart(id, name) == [kind |-> "functionResponse", id |-> id, name |-> name]

RECURSIVE findFunctionName(_, _, _)
\* The search of the tool branch: from the last content backwards, the name
\* of the first functionCall part of a model content with this id
findFunctionName(conts, i, id) ==
  IF i = 0 THEN NoName
  ELSE LET c == conts[i]
           hits == {k \in 1..Len(c.parts) :
                      c.parts[k].kind = "functionCall" /\ c.parts[k].id = id}
       IN IF c.role = "model" /\ hits # {}
          THEN c.parts[CHOOSE k \in hits : \A j \in hits : k <= j].name
          ELSE findFunctionName(conts, i - 1, id)

\* One round of convertMessages' loop: the contents after msg
convertMessage(conts, msg) ==
  IF msg.role = "user" THEN Append(conts, [role |-> "user", parts |-> <<textPart>>])
  ELSE IF msg.role = "assistant"
  THEN (IF msg.type = "function"
        THEN Append(conts, [role |-> "model",
                            parts |-> <<functionCallPart(msg.id, sanitizeToolName(msg.name))>>])
        ELSE conts)
  ELSE LET functionName == IF msg.name # NoName THEN msg.name
                           ELSE findFunctionName(conts, Len(conts), msg.id)
           functionResponse == functionResponsePart(msg.id, sanitizeToolName(functionName))
           n == Len(conts)
       IN IF n > 0 /\ conts[n].role = "user"
             /\ \E k \in 1..Len(conts[n].parts) : conts[n].parts[k].kind = "functionResponse"
          THEN [conts EXCEPT ![n].parts = Append(@, functionResponse)]
          ELSE Append(conts, [role |-> "user", parts |-> <<functionResponse>>])

ConversionFrame == UNCHANGED <<mgrVars, retryVars, lineVars, parserVars, fnsVars, errorVars, writerVars, sigVars, toolVars, orderVars, deliveryVars, connVars, startupVars, adminStoreVars, turnVars, thoughtVars, accountVars, cliVars, routeVars, chatVars>>

\* convertMessages' loop reaches the next message of the request: the
\* contents are those of the conversation up to it
ConvertMessage(msg) ==
  /\ Len(conversation) < MaxMessages
  /\ conversation' = Append(conversation, msg)
  /\ contents' = convertMessage(contents, msg)
  /\ ConversionFrame

\* The next request, with a conversation of its own
NextRequest ==
  /\ conversation # <<>>
  /\ conversation' = <<>>
  /\ contents' = <<>>
  /\ ConversionFrame

(* ------------------ the parser state of a streamed turn --------------- *)
\* The thought signatures of the upstream parts
PartSigs == {NoSig, "SIG1", "SIG2"}

\* state.model: set, or left out by the caller
StateModels == {"", "m1"}

\* The parts of a frame: a thought with text 'a', a text, a function call,
\* each with or without a thoughtSignature
SignedParts ==
  {[kind |-> "thought", text |-> <<"a">>, sig |-> s] : s \in PartSigs}
    \cup {[kind |-> "text", text |-> <<"b">>, sig |-> NoSig]}
    \cup {[kind |-> "functionCall", text |-> <<>>, sig |-> s] : s \in PartSigs}

\* The frames: at most one part, with or without finishReason; usageMetadata
\* comes with a finishReason
TurnFrames ==
  {[parts |-> ps, finish |-> f, hasUsage |-> u] :
     ps \in {<<>>} \cup {<<q>> : q \in SignedParts}, f \in BOOLEAN, u \in BOOLEAN}
    \ {[parts |-> ps, finish |-> FALSE, hasUsage |-> TRUE] :
         ps \in {<<>>} \cup {<<q>> : q \in SignedParts}}

NoTurn == [model |-> "", reasoningSignature |-> NoSig, reasoningContent |-> <<>>,
           hasToolCalls |-> FALSE, toolCalls |-> <<>>]

\* The effects: a callback event or a call of setSignature
NoEffect == [type |-> "", bucket |-> "", signature |-> NoSig, content |-> <<>>,
             tool_calls |-> <<>>]

\* state.reasoningContent || ' '
Blank == <<" ">>

RECURSIVE parseSignedParts(_, _, _)
\* parseAndEmitStreamChunk's loop over the parts, with the signatures: the
\* state and the events emitted
parseSignedParts(st, parts, out) ==
  IF parts = <<>> THEN [state |-> st, events |-> out]
  ELSE
    LET part == Head(parts)
        s1 == IF part.sig # NoSig /\ part.sig # st.reasoningSignature
              THEN [st EXCEPT !.reasoningSignature = part.sig] ELSE st
    IN
      IF part.kind = "thought"
      THEN parseSignedParts(
             [s1 EXCEPT !.reasoningContent = @ \o part.text,
                        !.reasoningSignature = Or(part.sig, @)],
             Tail(parts),
             Append(out, [NoEffect EXCEPT !.type = "reasoning", !.content = part.text,
                                          !.signature = Or(part.sig, s1.reasoningSignature)]))
      ELSE IF part.kind = "text"
      THEN parseSignedParts(s1, Tail(parts),
                            Append(out, [NoEffect EXCEPT !.type = "text", !.content = part.text]))
      ELSE LET sig == Or(part.sig, s1.reasoningSignature)
               toolCall == [name |-> "f", thoughtSignature |-> sig]
           IN parseSignedParts(
                [s1 EXCEPT !.hasToolCalls = @ \/ sig # NoSig,
                           !.toolCalls = Append(@, toolCall)],
                Tail(parts), out)

\* The steps of a finishReason frame in another order: the flush first
finishFlushFirst(cached, flush, usage) == flush \o cached \o usage

\* The steps of a finishReason frame: the signature is stored, the buffered
\* tool calls are flushed, the usage is reported
finishSteps(cached, flush, usage) == cached \o flush \o usage

\* parseAndEmitStreamChunk(line, state, callback) for a data line with this
\* frame: the state after it and what it did, in order
parseAndEmitStreamChunkState(st, frame, flags) ==
  LET r == parseSignedParts(st, frame.parts, <<>>)
      s == r.state
      hasTools == s.hasToolCalls \/ Len(s.toolCalls) > 0
      cached == IF s.model # "" /\ s.reasoningSignature # NoSig
                   /\ shouldCacheSignature(flags, hasTools, FALSE)
                THEN <<[NoEffect EXCEPT
                          !.type = "setSignature",
                          !.bucket = IF hasTools THEN "tool" ELSE "reasoning",
                          !.signature = s.reasoningSignature,
                          !.content = IF s.reasoningContent # <<>> THEN s.reasoningContent
                                      ELSE Blank]>>
                ELSE <<>>
      flush == IF Len(s.toolCalls) > 0
               THEN <<[NoEffect EXCEPT !.type = "tool_calls", !.tool_calls = s.toolCalls]>>
               ELSE <<>>
      usage == IF frame.hasUsage THEN <<[NoEffect EXCEPT !.type = "usage"]>> ELSE <<>>
  IN IF ~frame.finish THEN r
     ELSE [state |-> [s EXCEPT !.toolCalls = <<>>, !.reasoningContent = <<>>,
                               !.hasToolCalls = FALSE],
           events |-> r.events \o finishSteps(cached, flush, usage)]

TurnFrame == UNCHANGED <<mgrVars, retryVars, lineVars, parserVars, fnsVars, errorVars, writerVars, sigVars, toolVars, orderVars, deliveryVars, connVars, startupVars, adminStoreVars, conversionVars, thoughtVars, accountVars, cliVars, routeVars, chatVars>>

\* A streaming call starts: a fresh state for the model
TurnStart(model, flags) ==
  /\ turnState' = [NoTurn EXCEPT !.model = model]
  /\ turnFrames' = <<>>
  /\ turnEffects' = <<>>
  /\ turnFlags' = flags
  /\ TurnFrame

\* A data line of the upstream arrives and is parsed
TurnData(frame) ==
  /\ Len(turnFrames) < MaxFrames
  /\ LET r == parseAndEmitStreamChunkState(turnState, frame, turnFlags)
     IN /\ turnState' = r.state
        /\ turnEffects' = turnEffects \o r.events
  /\ turnFrames' = Append(turnFrames, frame)
  /\ UNCHANGED turnFlags
  /\ TurnFrame

(* ------------- the post-processing of a Gemini model turn ------------- *)
\* A second standalone signature of the client
OtherSig == "OWN2"

\* The parts of a model turn of a Gemini request: thoughts, function calls
\* and inline data with or without signature, a text, standalone signatures
ModelTurnParts ==
  {[kind |-> "thought", sig |-> NoSig], [kind |-> "thought", sig |-> OwnSig],
   [kind |-> "functionCall", sig |-> NoSig], [kind |-> "inlineData", sig |-> NoSig],
   [kind |-> "text", sig |-> NoSig],
   [kind |-> "signature", sig |-> OwnSig], [kind |-> "signature", sig |-> OtherSig]}

\* The signature contexts getGeminiCliSignatureContext resolves: never empty
Contexts ==
  {[reasoningSignature |-> "RSIG", toolSignature |-> NoSig],
   [reasoningSignature |-> NoSig, toolSignature |-> "TSIG"],
   [reasoningSignature |-> "RSIG", toolSignature |-> "TSIG"]}

NotProcessed == [done |-> FALSE, ctx |-> NoContext, parts |-> <<>>]

ThoughtFrame == UNCHANGED <<mgrVars, retryVars, lineVars, parserVars, fnsVars, errorVars, writerVars, sigVars, toolVars, orderVars, deliveryVars, connVars, startupVars, adminStoreVars, conversionVars, turnVars, accountVars, cliVars, routeVars, chatVars>>

\* The client's model turn has one more part
ModelTurnPart(part) ==
  /\ Len(modelTurn) < MaxTurnParts
  /\ modelTurn' = Append(modelTurn, part)
  /\ processedTurn' = NotProcessed
  /\ ThoughtFrame

\* convertGeminiToGeminiCli's loop body for this model turn, thinking enabled
PostProcess(ctx) ==
  /\ ~processedTurn.done
  /\ processedTurn' = [done |-> TRUE, ctx |-> ctx,
                       parts |-> processGeminiModelThoughts(modelTurn, TRUE, ctx)]
  /\ UNCHANGED modelTurn
  /\ ThoughtFrame

\* The next request
NextModelTurn ==
  /\ modelTurn' = <<>>
  /\ processedTurn' = NotProcessed
  /\ ThoughtFrame

(* ------------------- adding and importing accounts -------------------- *)
\* The credentials a client sends: refresh tokens ("" is a missing one) and
\* access tokens
RefreshTokens == {"rt1", "rt2"}
ImportedAccessTokens == {"at1", "at2"}
RawTokens == [refresh_token : RefreshTokens \cup {""}, access_token : ImportedAccessTokens]

\* The import lists of up to MaxImport entries
ImportLists == UNION {[1..n -> RawTokens] : n \in 0..MaxImport}

NoImport == [added |-> 0, updated |-> 0, skipped |-> 0]

\* smartParseGeminiCliToken: an entry without refresh token parses to nothing
RECURSIVE parseImportList(_)
parseImportList(list) ==
  IF list = <<>> THEN <<>>
  ELSE IF Head(list).refresh_token = "" THEN parseImportList(Tail(list))
       ELSE <<Head(list)>> \o parseImportList(Tail(list))

\* findIndex by refresh token: the first position, 0 for none
RECURSIVE findByRefreshToken(_, _, _)
findByRefreshToken(tokenList, rt, i) ==
  IF i > Len(tokenList) THEN 0
  ELSE IF tokenList[i].refresh_token = rt THEN i
       ELSE findByRefreshToken(tokenList, rt, i + 1)

\* The merge loop of the import route: the set of existing refresh tokens is
\* taken once, before the loop
RECURSIVE mergeTokens(_, _, _, _)
mergeTokens(existingTokens, existingRefreshTokens, parsed, counts) ==
  IF parsed = <<>> THEN [tokens |-> existingTokens, counts |-> counts]
  ELSE LET token == Head(parsed)
           index == findByRefreshToken(existingTokens, token.refresh_token, 1)
       IN IF token.refresh_token \in existingRefreshTokens
          THEN IF index # 0
               THEN mergeTokens([existingTokens EXCEPT ![index] = token],
                                existingRefreshTokens, Tail(parsed),
                                [counts EXCEPT !.updated = @ + 1])
               ELSE mergeTokens(existingTokens, existingRefreshTokens, Tail(parsed), counts)
          ELSE mergeTokens(Append(existingTokens, token), existingRefreshTokens,
                           Tail(parsed), [counts EXCEPT !.added = @ + 1])

\* The store's writeAll: the file holds the list it is given, entry by entry
writeAll(tokenList) == tokenList

AccountFrame == UNCHANGED <<mgrVars, retryVars, lineVars, parserVars, fnsVars, errorVars, writerVars, sigVars, toolVars, orderVars, deliveryVars, connVars, startupVars, adminStoreVars, conversionVars, turnVars, thoughtVars, cliVars, routeVars, chatVars>>

\* POST /geminicli/tokens, for a body with both tokens: addToken appends
addToken(tokenData) ==
  /\ tokenData.refresh_token # ""
  /\ Len(storedTokens) < MaxStored
  /\ storedTokens' = writeAll(Append(storedTokens, tokenData))
  /\ UNCHANGED importResult
  /\ AccountFrame

\* POST /geminicli/tokens/import in replace mode: the parsed list is the file
ImportReplace(list) ==
  LET parsedTokens == parseImportList(list)
  IN /\ storedTokens' = writeAll(parsedTokens)
     /\ importResult' = [added |-> Len(parsedTokens), updated |-> 0,
                         skipped |-> Len(list) - Len(parsedTokens)]
     /\ AccountFrame

\* POST /geminicli/tokens/import in merge mode
ImportMerge(list) ==
  LET parsedTokens == parseImportList(list)
      existingRefreshTokens == {storedTokens[i].refresh_token : i \in 1..Len(storedTokens)}
      mergeResult == mergeTokens(storedTokens, existingRefreshTokens, parsedTokens,
                            [NoImport EXCEPT !.skipped = Len(list) - Len(parsedTokens)])
  IN /\ Len(mergeResult.tokens) <= MaxStored
     /\ storedTokens' = writeAll(mergeResult.tokens)
     /\ importResult' = mergeResult.counts
     /\ AccountFrame

(* ---------------- the non-streaming /cli response -------------------- *)
CacheBuckets == {"reasoning", "tool"}
NoEntry == [signature |-> NoSig, content |-> ""]

\* What generateNoStreamResponse collects from the upstream's answer
UpstreamResults ==
  [content : {"A"}, reasoningContent : {"", "T1"},
   reasoningSignature : {NoSig, "SIG1"}, hasTools : BOOLEAN]

\* The gating flags of the configuration, without the catch-all
CliCacheFlags == {flags \in CacheFlags : ~flags.cacheAllSignatures}

NoCliResponse == [done |-> FALSE, format |-> "", model |-> "", upstream |-> <<>>, body |-> <<>>]

\* getSignature(sessionId, model, {hasTools}): the entry of the model's bucket
getSignature(cache, model, hasTools) ==
  cache[model][IF hasTools THEN "tool" ELSE "reasoning"]

\* The entry setSignature stores: the thought text, or a blank for none
cacheEntry(signature, content) ==
  [signature |-> signature, content |-> IF content # "" THEN content ELSE " "]

\* The cache after setSignature, which stores only what the gating admits
cacheAfter(cache, flags, model, signature, content, hasTools) ==
  IF signature # NoSig /\ shouldCacheSignature(flags, hasTools, FALSE)
  THEN [cache EXCEPT ![model][IF hasTools THEN "tool" ELSE "reasoning"] =
          cacheEntry(signature, content)]
  ELSE cache

\* The fields of the body the formatter of the dialect writes: the OpenAI
\* body never carries the signature
responseBody(format, content, reasoningContent, reasoningSignature) ==
  [content |-> content, reasoning |-> reasoningContent,
   signature |-> IF format = "openai" THEN NoSig ELSE reasoningSignature]

\* The non-streaming branch: the upstream's signature, else the cached one
\* and, if the upstream sent no thought text, the cached text
finalSignature(upstream, cached) ==
  IF upstream.reasoningSignature = NoSig /\ cached.signature # NoSig
  THEN [signature |-> cached.signature,
        content |-> IF upstream.reasoningContent = "" /\ cached.content # "" /\ cached.content # " "
                    THEN cached.content ELSE upstream.reasoningContent]
  ELSE [signature |-> upstream.reasoningSignature, content |-> upstream.reasoningContent]

CliFrame == UNCHANGED <<mgrVars, retryVars, lineVars, parserVars, fnsVars, errorVars, writerVars, sigVars, toolVars, orderVars, deliveryVars, connVars, startupVars, adminStoreVars, conversionVars, turnVars, thoughtVars, accountVars, routeVars, chatVars>>

\* handleGeminiCliRequest, non-streaming: the answer of the upstream becomes
\* the body of the dialect, and the signature is cached
NoStreamRequest(format, model, upstream, flags) ==
  LET final == finalSignature(upstream, getSignature(cliCache, model, upstream.hasTools))
  IN /\ cliCache' = cacheAfter(cliCache, flags, model, final.signature, final.content,
                               upstream.hasTools)
     /\ cliResponse' = [done |-> TRUE, format |-> format, model |-> model,
                        upstream |-> upstream,
                        body |-> responseBody(format, upstream.content, final.content,
                                              final.signature)]
     /\ CliFrame

\* handleGeminiCliRequest, fake streaming: the signature of the upstream's
\* answer is cached, the answer is replayed as a stream
FakeStreamRequest(model, upstream, flags) ==
  /\ upstream.reasoningSignature # NoSig
  /\ cliCache' = cacheAfter(cliCache, flags, model, upstream.reasoningSignature,
                            upstream.reasoningContent, upstream.hasTools)
  /\ cliResponse' = NoCliResponse
  /\ CliFrame

(* ------------------- the dialect of a /cli request -------------------- *)
\* The routes of the /cli router and the format each forces
CliRoutes == {"/v1/chat/completions", "/v1beta/models/:model:generateContent",
              "/v1beta/models/:model:streamGenerateContent", "/v1/messages"}
forceFormat(route) ==
  IF route = "/v1/chat/completions" THEN "openai"
  ELSE IF route = "/v1/messages" THEN "claude"
  ELSE "gemini"

\* What the checks read of a JSON body: whether messages and contents are
\* arrays, whether system is there, the shape of the first tool, stream
CliBodies ==
  [messages : BOOLEAN, contents : BOOLEAN, system : BOOLEAN,
   tools : {"none", "parameters", "input_schema"}, stream : BOOLEAN]

\* detectRequestFormat(request)
detectRequestFormat(request) ==
  IF request.messages
  THEN IF request.system \/ request.tools = "input_schema" THEN "claude" ELSE "openai"
  ELSE IF request.contents THEN "gemini"
  ELSE "openai"

\* validateIncomingChatRequest(format, body), for a body that is an object
validateIncomingChatRequest(format, requestBody) ==
  IF format \in {"openai", "claude"} THEN requestBody.messages
  ELSE IF format = "gemini" THEN requestBody.contents
  ELSE FALSE

\* normalizeGeminiCliRequest(requestBody, forceFormat); _isStream is the mark
\* the streamGenerateContent route puts on the body
normalizeGeminiCliRequest(requestBody, isStream, forced) ==
  LET format == IF forced # "" THEN forced ELSE detectRequestFormat(requestBody)
  IN [ok |-> validateIncomingChatRequest(format, requestBody),
      format |-> format,
      stream |-> IF format = "gemini" THEN isStream ELSE requestBody.stream]

NotRouted == [route |-> "", body |-> <<>>, ok |-> FALSE, format |-> "", stream |-> FALSE,
              sourceFormat |-> ""]

RouteFrame == UNCHANGED <<mgrVars, retryVars, lineVars, parserVars, fnsVars, errorVars, writerVars, sigVars, toolVars, orderVars, deliveryVars, connVars, startupVars, adminStoreVars, conversionVars, turnVars, thoughtVars, accountVars, cliVars, chatVars>>

\* handleGeminiCliRequest up to the conversion: a body that fails the
\* validation is answered with 400, any other is converted by the converter
\* convertToGeminiCli picks for the cleaned body
CliRequest(route, requestBody) ==
  LET normalized == normalizeGeminiCliRequest(
                      requestBody, route = "/v1beta/models/:model:streamGenerateContent",
                      forceFormat(route))
  IN /\ cliRouted' = [route |-> route, body |-> requestBody, ok |-> normalized.ok,
                      format |-> normalized.format, stream |-> normalized.stream,
                      sourceFormat |-> IF normalized.ok THEN detectRequestFormat(requestBody)
                                       ELSE ""]
     /\ RouteFrame

(* --------------- the response of a streaming chat request ------------- *)
\* The handlers of streaming chat requests: app.post('/v1/chat/completions')
\* and handleClaudeRequest of server/index.js, handleGeminiCliRequest
ChatHandlers == {"chat.completions", "messages", "cli"}

\* res.headersSent: something was written to the response
headersSent(log) == log # <<>>

\* What the catch blocks do when the upstream call of the stream branch
\* throws: /cli writes the error as a frame and ends the response unless it
\* has ended; the handlers of server/index.js throw again, and their outer
\* catch returns if the headers are sent and answers with res.status().json()
\* if not
endsOnError(h, log) ==
  IF h = "cli" THEN TRUE ELSE ~headersSent(log)

ChatFrame == UNCHANGED <<mgrVars, retryVars, lineVars, parserVars, fnsVars, errorVars, writerVars, sigVars, toolVars, orderVars, deliveryVars, connVars, startupVars, adminStoreVars, conversionVars, turnVars, thoughtVars, accountVars, cliVars, routeVars>>

\* A request with stream = true reaches the stream branch: setStreamHeaders
\* sets the headers, createHeartbeat starts the timer, and
\* handleClaudeRequest writes message_start
ChatStart(h) ==
  /\ chatPc \in {"idle", "returned"}
  /\ chatPc' = "streaming"
  /\ chatHandler' = h
  /\ chatLog' = IF h = "messages" THEN <<"message_start">> ELSE <<>>
  /\ chatHeartbeat' = "running"
  /\ chatEnded' = FALSE
  /\ ChatFrame

\* The interval of createHeartbeat fires while the response has not ended
ChatHeartbeat ==
  /\ chatHeartbeat = "running"
  /\ ~chatEnded
  /\ Len(chatLog) < MaxLog
  /\ chatLog' = Append(chatLog, "heartbeat")
  /\ UNCHANGED <<chatPc, chatHandler, chatHeartbeat, chatEnded>>
  /\ ChatFrame

\* The callback of the upstream call writes a chunk
ChatData ==
  /\ chatPc = "streaming"
  /\ Len(chatLog) < MaxLog
  /\ chatLog' = Append(chatLog, "chunk")
  /\ UNCHANGED <<chatPc, chatHandler, chatHeartbeat, chatEnded>>
  /\ ChatFrame

\* The upstream call returns: the closing frames are written, the timer is
\* cleared and the response ended
ChatUpstreamEnd ==
  /\ chatPc = "streaming"
  /\ chatPc' = "returned"
  /\ chatLog' = Append(chatLog, "closing")
  /\ chatHeartbeat' = "cleared"
  /\ chatEnded' = TRUE
  /\ UNCHANGED chatHandler
  /\ ChatFrame

\* The upstream call throws: the catch of the stream branch clears the timer,
\* and the catch blocks end the response or not
ChatUpstreamFails ==
  /\ chatPc = "streaming"
  /\ chatPc' = "returned"
  /\ chatHeartbeat' = "cleared"
  /\ chatEnded' = endsOnError(chatHandler, chatLog)
  /\ chatLog' = IF endsOnError(chatHandler, chatLog) THEN Append(chatLog, "error")
                ELSE chatLog
  /\ UNCHANGED chatHandler
  /\ ChatFrame

(* --------------------------- specification ---------------------------- *)
\* The state after construction: nothing loaded, the store holds the accounts
Init ==
  /\ store = [j \in 1..NumAccounts |->
               [rt |-> j, at |-> 0, enable |-> TRUE, ts |-> StartTime,
                ein |-> InitialExpiresIn,
                projectId |-> IF j % 2 = 1 THEN ProjectIdValue ELSE NoProject]]
  /\ heap = [o \in ObjIds |-> FreeObj]
  /\ tokens = <<>>
  /\ currentIndex = 0
  /\ rotationStrategy \in RotationStrategy
  /\ tokenRequestCounts = [a \in Accounts |-> 0]
  /\ initPromise = "none"
  /\ initList = <<>>
  /\ initRes = <<>>
  /\ now = StartTime
  /\ pc = [p \in Procs |-> "idle"]
  /\ tok = [p \in Procs |-> Undef]
  /\ total = [p \in Procs |-> 0]
  /\ start = [p \in Procs |-> 0]
  /\ iter = [p \in Procs |-> 0]
  /\ ret = [p \in Procs |-> "none"]
  /\ adminPc = "idle"
  /\ adminTok = FreeObj
  /\ mgrDisabled = {}
  /\ lastQuota = 0
  /\ run = <<>>
  /\ lastError = NoError
  /\ retryPc = "idle"
  /\ maxRetries = 0
  /\ retries = 0
  /\ attempt = 0
  /\ outcomes = <<>>
  /\ retryResult = 0
  /\ streamBytes = <<>>
  /\ streamPos = 0
  /\ lineBuffer = <<>>
  /\ emitted = <<>>
  /\ parserToolCalls = <<>>
  /\ frameCount = 0
  /\ events = <<>>
  /\ fnsPc = "idle"
  /\ dialect = "openai"
  /\ collected = NothingCollected
  /\ body = <<>>
  /\ failedRequest = NoRequest
  /\ errorResponse = NoResponse
  /\ writerPc = "idle"
  /\ writer = NoWriter
  /\ claudeState = NewClaudeStreamState
  /\ claudeBlock = NewClaudeBlock
  /\ written = <<>>
  /\ seen = <<>>
  /\ upstreamCalls = <<>>
  /\ signatureCache = [m \in Models |-> [b \in Buckets |-> NoSig]]
  /\ upstreamRequest = NoUpstreamRequest
  /\ toolNameCache = [safe \in SafeNames |-> NoName]
  /\ declaredTools = {}
  /\ toolCallName = NoToolCallName
  /\ arrived = <<>>
  /\ sinceFinish = <<>>
  /\ errorDelivery = NoDelivery
  /\ clientClosed = FALSE
  /\ heartbeatTimer = "none"
  /\ lineBufferHeld = FALSE
  /\ upstreamReading = FALSE
  /\ streamLog = <<>>
  /\ accountFile = <<>>
  /\ startupPc = "none"
  /\ startupTokens = <<>>
  /\ startupRes = <<>>
  /\ tokenFile = [a \in Accounts |-> IF a = 1 THEN "enabled" ELSE "absent"]
  /\ adminOp = [p \in Procs |-> NoAdminOp]
  /\ adminDone = {}
  /\ conversation = <<>>
  /\ contents = <<>>
  /\ turnState = NoTurn
  /\ turnFrames = <<>>
  /\ turnEffects = <<>>
  /\ turnFlags = [cacheAllSignatures |-> FALSE, cacheToolSignatures |-> FALSE,
                  cacheImageSignatures |-> FALSE, cacheThinking |-> FALSE]
  /\ modelTurn = <<>>
  /\ processedTurn = NotProcessed
  /\ storedTokens = <<>>
  /\ importResult = NoImport
  /\ cliCache = [model \in Models |-> [b \in CacheBuckets |-> NoEntry]]
  /\ cliResponse = NoCliResponse
  /\ cliRouted = NotRouted
  /\ chatPc = "idle"
  /\ chatHandler = ""
  /\ chatLog = <<>>
  /\ chatHeartbeat = "none"
  /\ chatEnded = FALSE

\* Concurrent requests on fresh access tokens, with reloads
Next ==
  \/ EnsureInitialized
  \/ Reload
  \/ \E p \in Procs : GetTokenStart(p)
  \/ \E p \in Procs : FetchOk(p)
  \/ \E p \in Procs : FetchNull(p)
  \/ \E p \in Procs, s \in FailStatuses : FetchFail(p, s)
  \/ \E p \in Procs : UpstreamOk(p)
  \/ \E p \in Procs : Upstream403(p)
  \/ \E p \in Procs : Upstream429(p)
  \/ \E p \in Procs : UpstreamOther(p)

Spec == Init /\ [][Next]_vars

\* One request at a time, from startup on, while access tokens expire
SeqProcs == {1}

NextSeq ==
  \/ EnsureInitialized
  \/ \E k \in 1..NumAccounts, e \in ExpiresInValues : InitRefreshOk(k, e)
  \/ \E k \in 1..NumAccounts, s \in FailStatuses : InitRefreshFail(k, s)
  \/ \E p \in SeqProcs : GetTokenStart(p)
  \/ \E p \in SeqProcs, e \in ExpiresInValues : RefreshOk(p, e)
  \/ \E p \in SeqProcs, s \in FailStatuses : RefreshFail(p, s)
  \/ \E p \in SeqProcs : FetchOk(p)
  \/ \E p \in SeqProcs : FetchNull(p)
  \/ \E p \in SeqProcs, s \in FailStatuses : FetchFail(p, s)
  \/ \E p \in SeqProcs : UpstreamOk(p)
  \/ \E p \in SeqProcs : Upstream403(p)
  \/ \E p \in SeqProcs : Upstream429(p)
  \/ \E p \in SeqProcs : UpstreamOther(p)
  \/ Tick

\* ... under each rotation strategy of the configuration
InitRoundRobin == Init /\ rotationStrategy = "round_robin"

SpecRoundRobin == InitRoundRobin /\ [][NextSeq]_vars

InitRequestCount == Init /\ rotationStrategy = "request_count"

SpecRequestCount == InitRequestCount /\ [][NextSeq]_vars

InitQuotaExhausted == Init /\ rotationStrategy = "quota_exhausted"

SpecQuotaExhausted == InitQuotaExhausted /\ [][NextSeq]_vars

\* One request at a time, the upstream call failing with every status and body
NextUpstream ==
  \/ EnsureInitialized
  \/ \E k \in 1..NumAccounts, e \in ExpiresInValues : InitRefreshOk(k, e)
  \/ \E k \in 1..NumAccounts, s \in FailStatuses : InitRefreshFail(k, s)
  \/ \E p \in SeqProcs : GetTokenStart(p)
  \/ \E p \in SeqProcs, e \in ExpiresInValues : RefreshOk(p, e)
  \/ \E p \in SeqProcs, s \in FailStatuses : RefreshFail(p, s)
  \/ \E p \in SeqProcs : FetchOk(p)
  \/ \E p \in SeqProcs : FetchNull(p)
  \/ \E p \in SeqProcs, s \in FailStatuses : FetchFail(p, s)
  \/ \E p \in SeqProcs : UpstreamOk(p)
  \/ \E p \in SeqProcs, s \in UpstreamErrorStatuses, b \in ErrorBodies : UpstreamFails(p, s, b)
  \/ Tick

SpecUpstream == InitRoundRobin /\ [][NextUpstream]_vars

\* The admin route that refreshes an account, beside one request at a time
NextAdmin ==
  \/ EnsureInitialized
  \/ \E k \in 1..NumAccounts, e \in ExpiresInValues : InitRefreshOk(k, e)
  \/ \E k \in 1..NumAccounts, s \in FailStatuses : InitRefreshFail(k, s)
  \/ \E p \in SeqProcs : GetTokenStart(p)
  \/ \E p \in SeqProcs, e \in ExpiresInValues : RefreshOk(p, e)
  \/ \E p \in SeqProcs, s \in FailStatuses : RefreshFail(p, s)
  \/ \E p \in SeqProcs : FetchOk(p)
  \/ \E p \in SeqProcs : FetchNull(p)
  \/ \E p \in SeqProcs, s \in FailStatuses : FetchFail(p, s)
  \/ \E p \in SeqProcs : UpstreamOther(p)
  \/ \E j \in 1..NumAccounts : AdminRefreshStart(j)
  \/ \E e \in ExpiresInValues : AdminRefreshOk(e)
  \/ \E s \in FailStatuses : AdminRefreshFail(s)
  \/ Tick

SpecAdmin == InitRequestCount /\ [][NextAdmin]_vars

\* One call of with429Retry after another, for every configured retryTimes
NextRetry ==
  \/ \E h \in RetryTimesValues, safe \in BOOLEAN : RetryStart(h, safe)
  \/ FnReturns
  \/ \E s \in UpstreamStatuses : FnThrows(s)
  \/ RetryDone

SpecRetry == InitRoundRobin /\ [][NextRetry]_vars

\* Upstream responses delivered in chunks of every size
NextLines ==
  \/ \E text \in Texts : StreamOpen(text)
  \/ \E n \in 1..(2 * MaxStreamChars) : processChunk(n)
  \/ StreamClose

SpecLines == InitRoundRobin /\ [][NextLines]_vars

\* Non-stream requests answered from the streaming API, in every dialect
NextFakeNonStream ==
  \/ \E d \in Dialects : FakeNonStreamStart(d)
  \/ \E parts \in PartLists, finish \in BOOLEAN, hasUsage \in BOOLEAN :
       FakeNonStreamFrame(parts, finish, hasUsage)
  \/ FakeNonStreamEnd

SpecFakeNonStream == InitRoundRobin /\ [][NextFakeNonStream]_vars

\* Requests of every dialect failing at every point before the first byte
NextErrors ==
  \E h \in Handlers, d \in Dialects, failure \in Failures,
     status \in UpstreamErrorStatuses, rawBody \in RawBodies :
    HandlerFails(h, d, failure, status, rawBody)

SpecErrors == InitRoundRobin /\ [][NextErrors]_vars

\* Stream requests of every dialect, over every sequence of upstream events
NextStream ==
  \/ \E h \in WriterHandlers, f \in Dialects, model \in ModelNames :
       StreamRequest(h, f, model)
  \/ StreamRetry
  \/ \E data \in WriterEvents : OnEvent(data)
  \/ Finalize
  \/ \E content \in Str, reasoningContent \in Str, usage \in BOOLEAN,
        toolCalls \in ToolCallLists \cup {<<>>} :
       FakeStreamResponse(content, reasoningContent, toolCalls, usage)
  \/ EndStream

SpecStream == InitRoundRobin /\ [][NextStream]_vars

\* Signatures cached and requests of every dialect built, in every order
NextSignatures ==
  \/ \E flags \in CacheFlags, model \in Models, signature \in Sigs, hasTools \in BOOLEAN :
       setSignature(flags, model, signature, hasTools)
  \/ \E d \in Dialects, model \in Models, hasTools \in BOOLEAN, enableThinking \in BOOLEAN,
        turn \in Turns :
       convertToGeminiCli(d, model, hasTools, enableThinking, turn)

SpecSignatures == InitRoundRobin /\ [][NextSignatures]_vars

\* Requests with every set of up to two declared tools, and their tool calls
NextTools ==
  \/ \E tools \in {t \in SUBSET ToolNameValues : Cardinality(t) <= 2} :
       \E called \in SUBSET tools : ConvertTools(tools, called)
  \/ \E tool \in ToolNameValues : ToolCalled(tool)

SpecTools == InitRoundRobin /\ [][NextTools]_vars

\* Streamed requests whose upstream frames go through the parser and the
\* writer of the handler
NextOrder ==
  \/ \E h \in WriterHandlers, f \in Dialects : StreamStart(h, f)
  \/ \E parts \in StreamPartLists, finish \in BOOLEAN, hasUsage \in BOOLEAN :
       StreamChunk(parts, finish, hasUsage)
  \/ Finalize
  \/ EndStream

SpecOrder == InitRoundRobin /\ [][NextOrder]_vars

\* Failing requests, stream and non-stream
NextDelivery ==
  \E h \in Handlers, d \in Dialects, stream \in BOOLEAN, sent \in BOOLEAN,
     failure \in Failures, status \in UpstreamErrorStatuses, rawBody \in RawBodies :
    RequestFails(h, d, stream, sent, failure, status, rawBody)

SpecDelivery == InitRoundRobin /\ [][NextDelivery]_vars

\* Streaming connections whose client may close them
NextConn ==
  \/ ConnStart
  \/ HeartbeatTick
  \/ UpstreamData
  \/ ClientCloses
  \/ UpstreamEnd

SpecConn == InitRoundRobin /\ [][NextConn]_vars

\* Startups over every account file
NextStartup ==
  \/ \E file \in AccountFiles : StartupInitialize(file)
  \/ \E j \in 1..NumAccounts : StartupRefreshOk(j)
  \/ \E j \in 1..NumAccounts, status \in FailStatuses : StartupRefreshFail(j, status)
  \/ Restart

SpecStartup == InitRoundRobin /\ [][NextStartup]_vars

\* Admin requests that add, update and delete accounts, one after the
\* other and overlapping
NextAdminStore ==
  \/ \E p \in Procs, op \in AdminOps, account \in Accounts : AdminReadAll(p, op, account)
  \/ \E p \in Procs : AdminWriteAll(p)

SpecAdminStore == InitRoundRobin /\ [][NextAdminStore]_vars

\* Requests that overlap while the accounts expire: their getToken calls
\* refresh the accounts concurrently
NextRefresh ==
  \/ EnsureInitialized
  \/ \E k \in 1..NumAccounts, e \in ExpiresInValues : InitRefreshOk(k, e)
  \/ \E k \in 1..NumAccounts, s \in FailStatuses : InitRefreshFail(k, s)
  \/ \E p \in Procs : GetTokenStart(p)
  \/ \E p \in Procs, e \in ExpiresInValues : RefreshOk(p, e)
  \/ \E p \in Procs, s \in FailStatuses : RefreshFail(p, s)
  \/ \E p \in Procs : FetchOk(p)
  \/ \E p \in Procs : UpstreamOk(p)
  \/ Tick

SpecRefresh == InitRoundRobin /\ [][NextRefresh]_vars

\* Conversions of every conversation of up to MaxMessages messages
NextConversion ==
  \/ \E msg \in Messages : ConvertMessage(msg)
  \/ NextRequest

SpecConversion == InitRoundRobin /\ [][NextConversion]_vars

\* Streamed turns: every transcript of up to MaxFrames frames
NextTurn ==
  \/ \E model \in StateModels, flags \in CacheFlags : TurnStart(model, flags)
  \/ \E frame \in TurnFrames : TurnData(frame)

SpecTurn == InitRoundRobin /\ [][NextTurn]_vars

\* Post-processing of every model turn of up to MaxTurnParts parts
NextThoughts ==
  \/ \E part \in ModelTurnParts : ModelTurnPart(part)
  \/ \E ctx \in Contexts : PostProcess(ctx)
  \/ NextModelTurn

SpecThoughts == InitRoundRobin /\ [][NextThoughts]_vars

\* One request at a time under request_count, every account prepared and
\* every request served by the upstream and recorded, with reloads of the
\* account file; the run of calls is followed
NextCounted ==
  \/ EnsureInitialized
  \/ Reload
  \/ \E k \in 1..NumAccounts, e \in ExpiresInValues : InitRefreshOk(k, e)
  \/ \E p \in SeqProcs : GetTokenCall(p, TRUE)
  \/ \E p \in SeqProcs, e \in ExpiresInValues : RefreshOk(p, e)
  \/ \E p \in SeqProcs : FetchOk(p)
  \/ \E p \in SeqProcs : UpstreamOk(p)
  \/ Tick

SpecCounted == InitRequestCount /\ [][NextCounted]_vars

\* The administrator adds and imports accounts
NextAccounts ==
  \/ \E tokenData \in RawTokens : addToken(tokenData)
  \/ \E list \in ImportLists : ImportReplace(list)
  \/ \E list \in ImportLists : ImportMerge(list)

SpecAccounts == InitRoundRobin /\ [][NextAccounts]_vars

\* Non-streaming and fake-streaming /cli requests, one after another
NextCli ==
  \/ \E format \in Dialects, model \in Models, upstream \in UpstreamResults, flags \in CliCacheFlags :
       NoStreamRequest(format, model, upstream, flags)
  \/ \E model \in Models, upstream \in UpstreamResults, flags \in CliCacheFlags :
       FakeStreamRequest(model, upstream, flags)

SpecCli == InitRoundRobin /\ [][NextCli]_vars

\* /cli requests on every route with every shape of body
NextRoute == \E route \in CliRoutes, requestBody \in CliBodies : CliRequest(route, requestBody)

SpecRoute == InitRoundRobin /\ [][NextRoute]_vars

\* Streaming chat requests, one after another. The upstream call of a
\* request returns or throws in the end (it has a timeout), and the handler's
\* continuation then runs
NextChat ==
  \/ \E h \in ChatHandlers : ChatStart(h)
  \/ ChatHeartbeat
  \/ ChatData
  \/ ChatUpstreamEnd
  \/ ChatUpstreamFails

SpecChat ==
  InitRoundRobin /\ [][NextChat]_vars /\ WF_vars(ChatUpstreamEnd \/ ChatUpstreamFails)

(* ----------------------------- properties ----------------------------- *)
\* The accounts of the active list
ActiveAccounts(h, toks) == {h[toks[k]].rt : k \in 1..Len(toks)}

\* The enable flag the account file holds for account a
StoredEnable(st, a) == \E j \in 1..Len(st) : st[j].rt = a /\ st[j].enable

\* The 0-based position of reference o in the list
IndexOf(toks, o) == CHOOSE k \in 0..(Len(toks) - 1) : toks[k + 1] = o

\* Request p's getToken returns a token in this step
Returns(p) == pc[p] # "request" /\ pc'[p] = "request"

\* How often a occurs in s
Count(s, a) == Cardinality({i \in 1..Len(s) : s[i] = a})

\* C1: under round_robin with k >= 2 active accounts that all stay ready,
\* every run of n consecutive successful getToken calls with n mod k = 0
\* returns each active account exactly n/k times.
C1_RotationFairness ==
  (rotationStrategy = "round_robin" /\ Len(tokens) >= 2) =>
    \A i \in 1..Len(run), n \in 1..Len(run) :
      (i + n - 1 <= Len(run) /\ n % Len(tokens) = 0) =>
        \A a \in ActiveAccounts(heap, tokens) :
          Count(SubSeq(run, i, i + n - 1), a) * Len(tokens) = n

\* C1: a run of 2k calls on k >= 2 accounts has been served
C1_Witness ==
  /\ rotationStrategy = "round_robin"
  /\ Len(tokens) >= 2
  /\ Len(run) = 2 * Len(tokens)

\* C2: a call of getToken made after the manager disabled an account does
\* not return that account (also after a reload, no admin having re-enabled it).
C2_DisableIsolation ==
  [][\A p \in Procs :
       (pc[p] = "idle" /\ pc'[p] = "request") => heap'[tok'[p]].rt \notin mgrDisabled]_vars

\* C3: currentIndex is an integer within [0, |active list|) whenever the
\* active list is not empty.
C3_IndexInRange ==
  Len(tokens) > 0 => currentIndex \in 0..(Len(tokens) - 1)

\* C4: getToken never rejects: it resolves to an account of the active list
\* or to null.
C4_GetTokenNeverRejects ==
  \A p \in Procs :
    /\ ret[p] # "reject"
    /\ (pc[p] = "request" /\ ret[p] = "token") => tok[p] \in SeqToSet(tokens)

\* C5: no step sends an OAuth refresh request (startup batch, getToken,
\* refreshTokenById) for an account whose stored enable flag is false.
C5_NoRefreshOfDisabled ==
  [][/\ (adminPc = "idle" /\ adminPc' = "refresh") => StoredEnable(store', adminTok'.rt)
     /\ \A p \in Procs :
          (pc'[p] = "refresh" /\ (pc[p] # "refresh" \/ tok'[p] # tok[p]))
            => StoredEnable(store', heap'[tok'[p]].rt)
     /\ (initPromise # "pending" /\ initPromise' = "pending")
          => \A k \in 1..Len(initList') : StoredEnable(store', heap'[initList'[k]].rt)]_vars

\* A refresh of the token object o succeeds with expires_in e in this step
RefreshSucceeds(o, e) ==
  \/ \E p \in Procs : tok[p] = o /\ RefreshOk(p, e)
  \/ \E k \in 1..Len(initList) : initList[k] = o /\ InitRefreshOk(k, e)

\* C6 (as amended): right after refreshToken(a) succeeds, isExpired(a) is false
\* exactly when the expires_in of the response exceeds the refresh buffer.
C6_FreshAfterRefresh ==
  [][\A o \in ObjIds, e \in ExpiresInValues :
       RefreshSucceeds(o, e) =>
         (~isExpired(heap'[o], now') <=> e * MsPerSecond > TOKEN_REFRESH_BUFFER)]_vars

\* C6 (as stated): right after refreshToken(a) succeeds, isExpired(a) is false,
\* for every expires_in the endpoint returns.
C6_AsStated ==
  [][\A o \in ObjIds, e \in ExpiresInValues :
       RefreshSucceeds(o, e) => ~isExpired(heap'[o], now')]_vars

\* C6: an active account was refreshed with an expires_in above the buffer and
\* is not expired
C6_Witness ==
  \E k \in 1..Len(tokens) :
    LET t == heap[tokens[k]] IN
      /\ t.at # 0
      /\ t.ts = now
      /\ t.ein * MsPerSecond > TOKEN_REFRESH_BUFFER
      /\ ~isExpired(t, now)

\* Account a is out of the active list and stored with enable = false
Disabled(st, h, toks, a) == a \notin ActiveAccounts(h, toks) /\ ~StoredEnable(st, a)

\* C7: after a refresh of account a fails with 400 or 403 (inside getToken,
\* through refreshTokenById, or in the startup batch once it has completed),
\* a is absent from the active list and stored with enable = false.
C7_RefreshFailureDisables ==
  [][\A s \in {400, 403} :
       /\ \A p \in Procs :
            RefreshFail(p, s) => Disabled(store', heap', tokens', heap[tok[p]].rt)
       /\ AdminRefreshFail(s) => Disabled(store', heap', tokens', adminTok.rt)
       /\ \A k \in 1..Len(initList) :
            (InitRefreshFail(k, s) /\ initPromise' = "done") =>
              \A j \in 1..Len(initList) :
                (j = k \/ initRes[j] = "disable") =>
                  Disabled(store', heap', tokens', heap[initList[j]].rt)]_vars

\* The preparation of request p's candidate fails with status s in this step
PrepareFails(p, s) == RefreshFail(p, s) \/ FetchFail(p, s)

\* The scan of request p goes on past its candidate: it stops only with a
\* result, and returns null only with no candidate left
ScanContinues(p) ==
  /\ pc'[p] \in {"refresh", "fetch"} => iter'[p] > iter[p]
  /\ (pc'[p] = "idle" /\ ret'[p] = "null") => (tokens' = <<>> \/ iter[p] + 1 >= total[p])

\* C8: in a getToken scan, a candidate whose preparation fails with 400 or 403
\* is disabled (disableToken: out of the active list) and the scan continues;
\* one that fails with any other status is skipped and stays enabled in the
\* active list.
C8_PrepareFailure ==
  [][\A p \in Procs, s \in FailStatuses :
       PrepareFails(p, s) =>
         LET a == heap[tok[p]].rt IN
           /\ ScanContinues(p)
           /\ s \in {400, 403} =>
                /\ a \notin ActiveAccounts(heap', tokens')
                /\ a \in mgrDisabled'
           /\ s \notin {400, 403} =>
                /\ tokens' = tokens
                /\ heap'[tok[p]].enable
                /\ mgrDisabled' = mgrDisabled]_vars

\* C8: a scan over two accounts has lost a candidate that has its projectId
\* (a refresh answered 400 or 403) and is at its next candidate
C8_Witness ==
  \E p \in Procs :
    /\ pc[p] \in {"refresh", "fetch"}
    /\ iter[p] >= 1
    /\ Len(tokens) < total[p]
    /\ \E j \in 1..Len(store) :
         /\ ~store[j].enable
         /\ store[j].projectId # NoProject
         /\ store[j].rt \in mgrDisabled

\* C9 (as amended): under request_count(N), when getToken returns an account it
\* moves currentIndex past that account only if the account's counter is >= N,
\* resetting the counter to 0 in that step; with a counter < N currentIndex is
\* left on the returned account and the counter is kept.
C9_RequestCountRotation ==
  [][\A p \in Procs :
       (rotationStrategy = "request_count" /\ Returns(p)) =>
         LET o == tok'[p]
             a == heap'[o].rt
             pos == IndexOf(tokens', o)
         IN /\ o \in SeqToSet(tokens')
            /\ tokenRequestCounts[a] >= requestCountPerToken =>
                 /\ tokenRequestCounts'[a] = 0
                 /\ currentIndex' = (pos + 1) % Len(tokens')
            /\ tokenRequestCounts[a] < requestCountPerToken =>
                 /\ tokenRequestCounts'[a] = tokenRequestCounts[a]
                 /\ currentIndex' = pos]_vars

\* C9 (as stated): under request_count(N), a call of getToken moves currentIndex
\* off the account it pointed at when the call began only if that account's
\* counter is >= N, resetting it to 0; with a counter < N currentIndex stays.
\* (Stated for calls during which the active list did not change.)
C9_AsStated ==
  [][\A p \in Procs :
       (rotationStrategy = "request_count" /\ Returns(p) /\ tokens' = tokens
          /\ (pc[p] # "idle" => Len(tokens) = total[p])) =>
         LET cur == TokenAt(tokens, IF pc[p] = "idle" THEN currentIndex ELSE start[p])
             a == heap[cur].rt
         IN /\ TokenAt(tokens', currentIndex') # cur =>
                 /\ tokenRequestCounts[a] >= requestCountPerToken
                 /\ tokenRequestCounts'[a] = 0
            /\ tokenRequestCounts[a] < requestCountPerToken =>
                 TokenAt(tokens', currentIndex') = cur]_vars

\* C9: a request holds an account whose counter was reset while currentIndex
\* moved on to another account
C9_Witness ==
  \E p \in Procs :
    /\ rotationStrategy = "request_count"
    /\ pc[p] = "request"
    /\ tok[p] \in SeqToSet(tokens)
    /\ Len(tokens) >= 2
    /\ tokenRequestCounts[heap[tok[p]].rt] = 0
    /\ TokenAt(tokens, currentIndex) # tok[p]

\* C10: under quota_exhausted, consecutive successful getToken calls return the
\* same account, and once the caller has reported a 429 for an account the
\* next call returns a different account of the pool.
C10_QuotaExhaustedSwitch ==
  [][rotationStrategy = "quota_exhausted" =>
       /\ \A i, j \in 1..Len(run') : run'[i] = run'[j]
       /\ \A p \in Procs :
            (Returns(p) /\ lastQuota # 0 /\ Len(tokens') >= 2)
              => heap'[tok'[p]].rt # lastQuota]_vars

\* The account file holds a projectId for account a
StoredProject(st, a) == \E j \in 1..Len(st) : st[j].rt = a /\ st[j].projectId # NoProject

\* C11: once a getToken call has bootstrapped and saved the projectId of an
\* account, a getToken call that starts later returns the account with that
\* projectId and sends no loadCodeAssist / onboardUser request for it.
C11_ProjectIdPersists ==
  [][\A p \in Procs :
       /\ (pc[p] = "idle" /\ pc'[p] = "fetch")
            => ~StoredProject(store, heap'[tok'[p]].rt)
       /\ (pc[p] = "idle" /\ pc'[p] = "request"
             /\ StoredProject(store, heap'[tok'[p]].rt))
            => heap'[tok'[p]].projectId = ProjectIdValue]_vars

\* Calls of fn made so far by the running with429Retry
Calls == Len(outcomes) + (IF retryPc = "calling" THEN 1 ELSE 0)

\* C12: with429Retry calls fn at most retries + 1 times (retries being the
\* normalised retryTimes); every call but the last failed with 429; it returns
\* the first success and throws the first non-429 failure or the 429 of call
\* retries + 1; after 429, 429, 200 with retryTimes = 2 it has returned the
\* success after exactly two retries.
C12_Retry429 ==
  /\ Calls <= retries + 1
  /\ attempt = Max(Calls - 1, 0)
  /\ \A k \in 1..(Len(outcomes) - 1) : outcomes[k] = TooManyRequests
  /\ retryPc = "calling" => \A k \in 1..Len(outcomes) : outcomes[k] = TooManyRequests
  /\ retryPc = "returned" =>
       retryResult = OkStatus /\ outcomes[Len(outcomes)] = OkStatus
  /\ retryPc = "thrown" =>
       /\ retryResult = outcomes[Len(outcomes)]
       /\ retryResult # OkStatus
       /\ retryResult = TooManyRequests => Len(outcomes) = retries + 1
  /\ (retries = 2 /\ outcomes = <<TooManyRequests, TooManyRequests, OkStatus>>) =>
       retryPc = "returned" /\ attempt = 2

C12_Witness ==
  /\ retryPc = "returned"
  /\ maxRetries = 2 * 2
  /\ outcomes = <<TooManyRequests, TooManyRequests, OkStatus>>
  /\ attempt = 2

RECURSIVE SplitLF(_)
\* text.split('\n'): the pieces between line feeds, the last one included
SplitLF(text) ==
  LET k == IndexOfLF(text, 1) IN
    IF k = 0 THEN <<text>>
    ELSE <<SubSeq(text, 1, k - 1)>> \o SplitLF(SubSeq(text, k + 1, Len(text)))

DropLast(s) == SubSeq(s, 1, Len(s) - 1)

\* C13: when all chunks of a response ending with a line feed were given to
\* the line processor, the lines it got from LineBuffer.append, in order, are
\* the whole response split on the line feed without the empty last piece —
\* for every partition of the bytes into chunks.
C13_LineBufferCompleteness ==
  (streamBytes # <<>> /\ streamPos = Len(streamBytes))
    => emitted = DropLast(SplitLF(toStringUtf8(streamBytes)))

RECURSIVE ConcatText(_, _)
\* The texts of the events (or parts, or blocks) of one type, concatenated in order
ConcatText(evs, type) ==
  IF evs = <<>> THEN <<>>
  ELSE (IF Head(evs).type = type THEN Head(evs).text ELSE <<>>) \o ConcatText(Tail(evs), type)

RECURSIVE EventToolCalls(_)
\* The names of the tool calls of all tool_calls events, in order
EventToolCalls(evs) ==
  IF evs = <<>> THEN <<>>
  ELSE (IF Head(evs).type = "tool_calls"
        THEN [k \in 1..Len(Head(evs).tool_calls) |-> Head(evs).tool_calls[k].name]
        ELSE <<>>) \o EventToolCalls(Tail(evs))

RECURSIVE PartsText(_, _)
\* The texts of the body's parts (blocks) of one kind, in order
PartsText(ps, kind) ==
  IF ps = <<>> THEN <<>>
  ELSE (IF Head(ps).kind = kind THEN Head(ps).text ELSE <<>>) \o PartsText(Tail(ps), kind)

RECURSIVE PartsNames(_, _)
\* The tool names of the body's parts (blocks) of one kind, in order
PartsNames(ps, kind) ==
  IF ps = <<>> THEN <<>>
  ELSE (IF Head(ps).kind = kind THEN <<Head(ps).name>> ELSE <<>>) \o PartsNames(Tail(ps), kind)

BodyContent ==
  IF dialect = "openai" THEN body[1].content ELSE PartsText(body, "text")

BodyReasoning ==
  IF dialect = "openai" THEN body[1].reasoning_content
  ELSE IF dialect = "gemini" THEN PartsText(body, "thought")
  ELSE PartsText(body, "thinking")

BodyToolCalls ==
  IF dialect = "openai" THEN body[1].tool_calls
  ELSE IF dialect = "gemini" THEN PartsNames(body, "functionCall")
  ELSE PartsNames(body, "tool_use")

\* C14: in fake-non-stream mode, after a transcript ending with a finishReason
\* frame, the body holds the concatenation of the Text events as content, the
\* concatenation of the Reasoning events as reasoning content, and all the
\* tool calls of the buffered list, in each dialect.
C14_FakeNonStreamEquivalence ==
  fnsPc = "done" =>
    /\ BodyContent = ConcatText(events, "text")
    /\ BodyReasoning = ConcatText(events, "reasoning")
    /\ BodyToolCalls = EventToolCalls(events)

\* The body is the error envelope of dialect d
Envelope(b, d) ==
  IF d = "openai" THEN b.topKeys = {"error"} /\ b.errorKeys = {"message", "type", "code"}
  ELSE IF d = "gemini" THEN b.topKeys = {"error"} /\ b.errorKeys = {"code", "message", "status"}
  ELSE b.topKeys = {"type", "error"} /\ b.type = "error" /\ b.errorKeys = {"type", "message"}

\* C15: the JSON body of every error answer sent before the first response
\* byte is the envelope of the request's dialect.
C15_DialectErrorShape ==
  failedRequest # NoRequest => Envelope(errorResponse.body, failedRequest.dialect)

\* C16: when the upstream chat call fails with 403, the account used is
\* disabled (out of the active list, stored with enable = false) unless the
\* error body contains "The caller does not"; with that body, with 429 and
\* with any other status the active list and the stored enable flags stay as
\* they are.
C16_Upstream403Disables ==
  [][\A p \in Procs, s \in UpstreamErrorStatuses, b \in ErrorBodies :
       UpstreamFails(p, s, b) =>
         IF s = 403 /\ b # <<CallerDoesNot, "have permission">>
         THEN Disabled(store', heap', tokens', heap[tok[p]].rt)
         ELSE /\ tokens' = tokens
              /\ \A a \in Accounts : StoredEnable(store', a) = StoredEnable(store, a)
              /\ mgrDisabled' = mgrDisabled]_vars

\* C16: a 403 without the phrase was just handled: its account, of two
\* active ones, is disabled
C16_Witness ==
  /\ lastError.status = 403
  /\ ~isCallerDoesNotHavePermission(lastError.body)
  /\ Disabled(store, heap, tokens, lastError.account)
  /\ Len(tokens) = NumAccounts - 1

\* The frames written before the terminator of endStream
TypedFrames == SelectSeq(written, LAMBDA f : f.type # "[DONE]")

\* C17: every Claude-dialect stream that ended normally starts with exactly
\* one message_start frame, before any other frame, and ends with
\* message_delta (stop_reason, usage) followed by message_stop, whatever the
\* upstream events were, none included
C17_ClaudeStreamEnvelope ==
  (writerPc = "ended" /\ writer.format = "claude") =>
    LET n == Len(TypedFrames) IN
      /\ n >= 3
      /\ TypedFrames[1].type = "message_start"
      /\ \A i \in 2..n : TypedFrames[i].type # "message_start"
      /\ TypedFrames[n - 1].type = "message_delta"
      /\ TypedFrames[n - 1].finish \in {"tool_use", "end_turn"}
      /\ TypedFrames[n - 1].usage = writer.usageData
      /\ TypedFrames[n].type = "message_stop"

\* No content block is open
NoBlock == [index |-> 0 - 1, kind |-> ""]

\* The delta type of a block type
DeltaType(kind) ==
  IF kind = "thinking" THEN "thinking_delta"
  ELSE IF kind = "text" THEN "text_delta"
  ELSE "input_json_delta"

RECURSIVE BlockDiscipline(_, _)
\* The frames, read in order with the block that is open: a start only when
\* none is open, a delta and a stop only with the index (and the delta type)
\* of the open one, and none left open at the end
BlockDiscipline(frames, open) ==
  IF frames = <<>> THEN open = NoBlock
  ELSE LET f == Head(frames) IN
    IF f.type = "content_block_start"
    THEN open = NoBlock /\ BlockDiscipline(Tail(frames), [index |-> f.index, kind |-> f.kind])
    ELSE IF f.type = "content_block_delta"
    THEN /\ open # NoBlock
         /\ f.index = open.index
         /\ f.kind = DeltaType(open.kind)
         /\ BlockDiscipline(Tail(frames), open)
    ELSE IF f.type = "content_block_stop"
    THEN open # NoBlock /\ f.index = open.index /\ BlockDiscipline(Tail(frames), NoBlock)
    ELSE BlockDiscipline(Tail(frames), open)

\* C18: in every Claude-dialect stream, whatever the order of the reasoning,
\* text and tool_calls events, at most one content block is open at a time,
\* every content_block_start is followed by one content_block_stop with its
\* index before another block starts, and every content_block_delta carries
\* the index and the delta type of the open block
C18_ClaudeBlockDiscipline ==
  (writerPc = "ended" /\ writer.format = "claude") => BlockDiscipline(TypedFrames, NoBlock)

\* The chunks between the first and the final one carry one of the three
\* delta keys
ContentDelta(f) ==
  f.type = "chunk" /\ f.kind \in {"content", "reasoning_content", "tool_calls"} /\ f.finish = ""

\* C19: every OpenAI-dialect stream written from upstream events that ended
\* normally is a first chunk
\* with delta {role: "assistant"}, then only content, reasoning_content and
\* tool_calls delta chunks, then one final chunk with finish_reason
\* ('tool_calls' iff a tool_calls event occurred, else 'stop') and the
\* collected usage, then data: [DONE]
C19_OpenAIStreamShape ==
  (writerPc = "ended" /\ writer.format = "openai" /\ ~writer.fake) =>
    LET n == Len(written) IN
      /\ n >= 3
      /\ written[1].type = "chunk" /\ written[1].kind = "role" /\ written[1].finish = ""
      /\ \A i \in 2..(n - 2) : ContentDelta(written[i])
      /\ written[n - 1].type = "chunk"
      /\ written[n - 1].kind = ""
      /\ written[n - 1].finish =
           (IF \E i \in 1..Len(seen) : seen[i].type = "tool_calls" /\ seen[i].tool_calls # <<>>
            THEN "tool_calls" ELSE "stop")
      /\ written[n - 1].usage = (\E i \in 1..Len(seen) : seen[i].type = "usage")
      /\ written[n] = Done

RECURSIVE FramesText(_, _)
\* The text of the frames of these kinds, in order
FramesText(frames, kinds) ==
  IF frames = <<>> THEN <<>>
  ELSE (IF Head(frames).kind \in kinds THEN Head(frames).text ELSE <<>>)
         \o FramesText(Tail(frames), kinds)

RECURSIVE FramesToolCalls(_, _)
\* The tool calls of the frames of these kinds, in order
FramesToolCalls(frames, kinds) ==
  IF frames = <<>> THEN <<>>
  ELSE (IF Head(frames).kind \in kinds THEN Head(frames).tool_calls ELSE <<>>)
         \o FramesToolCalls(Tail(frames), kinds)

\* The first and the last frame of these kinds (0 and Len + 1 if there is none)
FirstOf(frames, kinds) ==
  IF \E i \in 1..Len(frames) : frames[i].kind \in kinds
  THEN CHOOSE i \in 1..Len(frames) :
         frames[i].kind \in kinds /\ \A j \in 1..(i - 1) : frames[j].kind \notin kinds
  ELSE Len(frames) + 1
LastOf(frames, kinds) ==
  IF \E i \in 1..Len(frames) : frames[i].kind \in kinds
  THEN CHOOSE i \in 1..Len(frames) :
         frames[i].kind \in kinds /\ \A j \in (i + 1)..Len(frames) : frames[j].kind \notin kinds
  ELSE 0

ReasoningKinds == {"reasoning_content", "thought", "thinking", "thinking_delta"}
ToolCallKinds == {"tool_calls", "functionCall", "input_json_delta"}
ContentKinds == {"content", "text", "text_delta"}

\* C20: a /cli request with stream = true for a model name that starts with
\* the fake-stream prefix makes only non-stream upstream calls
\* (generateContent), and the client then receives the collected reasoning,
\* tool calls and content as frames, in this order, then one final frame with
\* the finish reason and the usage (in the Claude format message_delta,
\* followed by message_stop), then [DONE]
C20_FakeStream ==
  (writerPc = "ended" /\ writer.handler = "cli" /\ isFakeStreamingModel(writer.model)) =>
    LET n == Len(written)
        last == IF writer.format = "claude" THEN n - 2 ELSE n - 1
        final == written[last]
    IN /\ upstreamCalls # <<>>
       /\ \A i \in 1..Len(upstreamCalls) : upstreamCalls[i] = "generateContent"
       /\ n >= 2 /\ last >= 1
       /\ written[n] = Done
       /\ writer.format = "claude" => written[n - 1].type = "message_stop"
       /\ final.type = (IF writer.format = "claude" THEN "message_delta"
                        ELSE IF writer.format = "openai" THEN "chunk" ELSE "gemini_chunk")
       /\ final.finish = (IF writer.format = "gemini" THEN "STOP"
                          ELSE IF writer.format = "claude"
                          THEN (IF seen[2].tool_calls # <<>> THEN "tool_use" ELSE "end_turn")
                          ELSE (IF seen[2].tool_calls # <<>> THEN "tool_calls" ELSE "stop"))
       /\ final.usage = writer.usageData
       /\ \A i \in 1..(last - 1) : written[i].finish = ""
       /\ FramesText(written, ReasoningKinds) = seen[1].text
       /\ FramesToolCalls(written, ToolCallKinds) = seen[2].tool_calls
       /\ FramesText(written, ContentKinds) = seen[3].text
       /\ LastOf(written, ReasoningKinds) < FirstOf(written, ToolCallKinds \cup ContentKinds)
       /\ LastOf(written, ToolCallKinds \cup {"tool_use"}) < FirstOf(written, ContentKinds)

\* A fake-stream request in the OpenAI format, retried once, was answered with
\* reasoning, a tool call and content
C20_Witness ==
  /\ writerPc = "ended"
  /\ writer.handler = "cli"
  /\ isFakeStreamingModel(writer.model)
  /\ writer.format = "openai"
  /\ Len(upstreamCalls) = 2
  /\ seen[1].text # <<>> /\ seen[2].tool_calls # <<>> /\ seen[3].text # <<>>
  /\ Len(written) = 5

\* The functionCall parts of the request that was built
FunctionCallParts == SelectSeq(upstreamRequest.parts, LAMBDA q : q.kind = "functionCall")

\* C21: when a signature s is cached for model m in the tool bucket, every
\* functionCall part of a request built for m with tools declared carries
\* thoughtSignature = s, in the three dialects
C21_SignatureReplay ==
  (upstreamRequest.hasTools /\ upstreamRequest.cached # NoSig) =>
    \A i \in 1..Len(FunctionCallParts) : FunctionCallParts[i].sig = upstreamRequest.cached

\* C22: for every set of declared tools, the tool call delivered to the
\* client carries the name the caller declared: sanitizing the name and
\* resolving the sanitized name gives the original name back
C22_ToolNameRoundTrip ==
  toolCallName # NoToolCallName => toolCallName.name = toolCallName.declared

RECURSIVE deliveredParts(_)
\* The content the frames carry, as upstream parts: the kind and the text of
\* every content frame, one entry for each tool call of a frame
deliveredParts(frames) ==
  IF frames = <<>> THEN <<>>
  ELSE LET f == Head(frames)
           content == f.type \in {"chunk", "gemini_chunk", "content_block_delta"}
       IN (IF content /\ f.kind \in ReasoningKinds THEN <<[kind |-> "thought", text |-> f.text]>>
           ELSE IF content /\ f.kind \in ContentKinds THEN <<[kind |-> "text", text |-> f.text]>>
           ELSE IF content /\ f.kind \in ToolCallKinds
           THEN [k \in 1..Len(f.tool_calls) |-> [kind |-> "functionCall", text |-> <<>>]]
           ELSE <<>>)
          \o deliveredParts(Tail(frames))

\* The kind and the text of the parts that arrived
arrivedParts == [k \in 1..Len(arrived) |-> [kind |-> arrived[k].kind, text |-> arrived[k].text]]

IsPrefix(s, t) == Len(s) <= Len(t) /\ \A k \in 1..Len(s) : s[k] = t[k]

\* C23: within one request the frames written to the client carry the
\* upstream parts (text, thought and functionCall alike) in the order in
\* which the parts arrived: what was written so far is a prefix of what
\* arrived so far
C23_ArrivalOrder ==
  writerPc = "streaming" => IsPrefix(deliveredParts(written), arrivedParts)

\* C24: the upstream call of a streamed request is issued again (after a
\* 429) only while no byte of the response (no message_start, no chunk) was
\* written to the client
C24_RetryBeforeFirstByte ==
  [][(writerPc = "streaming" /\ upstreamCalls' # upstreamCalls) => written = <<>>]_vars

\* The HTTP status an error calls for: 400 for a request that fails a check,
\* the status of the thrown error otherwise
errorStatus(failure, status) ==
  IF failure \in {"validation", "model"} THEN BadRequest ELSE thrownStatus(failure, status)

\* C25: an error that reaches a handler before any response byte was
\* written is answered with the error's HTTP status and a JSON body, for
\* stream requests as for non-stream ones; an error frame inside the stream
\* is used only when bytes were already written
C25_ErrorBeforeFirstByte ==
  errorDelivery # NoDelivery =>
    /\ ~errorDelivery.written =>
         /\ ~errorDelivery.framed
         /\ errorDelivery.httpStatus = errorStatus(errorDelivery.failure, errorDelivery.status)
    /\ errorDelivery.framed => errorDelivery.written

\* The position of the client's close in the log, 0 if it did not close
ClosedAt ==
  IF \E k \in 1..Len(streamLog) : streamLog[k] = "close"
  THEN CHOOSE k \in 1..Len(streamLog) : streamLog[k] = "close"
  ELSE 0

\* C26: when the client has closed the connection of a streaming request,
\* the heartbeat timer is stopped, the line buffer is released and the
\* upstream read is aborted, and no upstream chunk is parsed or written
\* after the close
C26_ClientClose ==
  clientClosed =>
    /\ heartbeatTimer = "cleared"
    /\ ~lineBufferHeld
    /\ ~upstreamReading
    /\ \A k \in (ClosedAt + 1)..Len(streamLog) : streamLog[k] = "close"

\* C27: after the startup the active list consists of exactly the stored
\* accounts that were enabled, minus those whose own refresh returned
\* 400/403: the failure of one account's refresh or disable removes no
\* other account
C27_StartupIsolation ==
  startupPc = "done" =>
    startupTokens = FilterSeq([j \in 1..Len(startupRes) |-> j],
                              {j \in 1..Len(startupRes) :
                                 startupRes[j] \in {NotRefreshed, "success", "rejected"}
                                 /\ (startupRes[j] = NotRefreshed => accountFile[j].enable)})

\* The file shows the effect of a completed operation
reflected(e) ==
  IF e.op = "add" THEN tokenFile[e.account] = "enabled"
  ELSE IF e.op = "update" THEN tokenFile[e.account] = "disabled"
  ELSE tokenFile[e.account] = "absent"

\* C28: the admin writes of the account file are atomic: when the requests
\* that overlapped in time have all completed, the file shows the effect of
\* each of them and no update is lost
C28_NoLostUpdate ==
  (\A p \in Procs : adminOp[p] = NoAdminOp) => \A e \in adminDone : reflected(e)

\* p's getToken is refreshing the token object o while another call is
\* refreshing the same object, or has refreshed it since p's call began (the
\* object was expired then and is fresh now)
RefreshOverlaps(p, o) ==
  /\ pc[p] = "refresh"
  /\ o = tok[p]
  /\ o # Undef
  /\ \/ \E q \in Procs \ {p} : pc[q] = "refresh" /\ tok[q] = o
     \/ ~isExpired(heap[o], now)

\* C29: when two in-flight getToken calls refresh the same expired account,
\* each response that arrives replaces the earlier fields as a whole:
\* access_token, expires_in and timestamp of the token object are those of
\* that one response (a new access token, the time of the response), the
\* account file holds the same three fields, and the account stays in the
\* active list
C29_ConcurrentRefresh ==
  [][\A p \in Procs, o \in ObjIds :
       (RefreshOverlaps(p, o) /\ heap'[o].rt = heap[o].rt /\ heap'[o].at # heap[o].at) =>
         /\ heap'[o].ts = now
         /\ heap'[o].ein \in ExpiresInValues
         /\ \A j \in 1..Len(store') :
              store'[j].rt = heap'[o].rt =>
                /\ store'[j].at = heap'[o].at
                /\ store'[j].ein = heap'[o].ein
                /\ store'[j].ts = heap'[o].ts
         /\ o \in SeqToSet(tokens) => o \in SeqToSet(tokens')]_vars

\* A getToken call is still refreshing an account of the active list that
\* another call, which began while the account was expired too, has
\* refreshed in the meantime
C29_Witness ==
  \E p \in Procs :
    /\ pc[p] = "refresh"
    /\ tok[p] \in SeqToSet(tokens)
    /\ heap[tok[p]].ts = now
    /\ heap[tok[p]].at # 0
    /\ ~isExpired(heap[tok[p]], now)

RECURSIVE partsOfKind(_, _, _)
\* The parts of a kind in the contents from turn t on, in order, each with
\* its turn
partsOfKind(conts, t, kind) ==
  IF t > Len(conts) THEN <<>>
  ELSE LET ps == conts[t].parts
           hits == FilterSeq([k \in 1..Len(ps) |-> k], {k \in 1..Len(ps) : ps[k].kind = kind})
       IN [k \in 1..Len(hits) |->
             [turn |-> t, role |-> conts[t].role, id |-> ps[hits[k]].id, name |-> ps[hits[k]].name]]
          \o partsOfKind(conts, t + 1, kind)

\* The tool messages of the conversation, in order
toolMessages ==
  LET ks == FilterSeq([k \in 1..Len(conversation) |-> k],
                      {k \in 1..Len(conversation) : conversation[k].role = "tool"})
  IN [k \in 1..Len(ks) |-> conversation[ks[k]]]

\* C30: every tool message of a converted OpenAI conversation yields exactly
\* one functionResponse part, with the message's tool_call_id and the name
\* of the earlier functionCall of a model turn with the same id, in a
\* user-role turn that comes after that call
C30_ToolMessage ==
  LET responses == partsOfKind(contents, 1, "functionResponse")
      calls == partsOfKind(contents, 1, "functionCall")
  IN /\ Len(responses) = Len(toolMessages)
     /\ \A k \in 1..Len(responses) :
          LET earlier == {c \in 1..Len(calls) :
                            calls[c].turn < responses[k].turn /\ calls[c].id = responses[k].id}
          IN /\ responses[k].id = toolMessages[k].id
             /\ responses[k].role = "user"
             /\ earlier # {} => \E c \in earlier : calls[c].name = responses[k].name

\* The parts of the frames of the turn, in order
turnParts ==
  LET RECURSIVE all(_)
      all(k) == IF k > Len(turnFrames) THEN <<>> ELSE turnFrames[k].parts \o all(k + 1)
  IN all(1)

\* The effects of a type, in order
effectsOf(type) == SelectSeq(turnEffects, LAMBDA e : e.type = type)

\* The position of the first effect of a type, 0 if there is none
firstOf(type) ==
  IF \E k \in 1..Len(turnEffects) : turnEffects[k].type = type
  THEN CHOOSE k \in 1..Len(turnEffects) :
         turnEffects[k].type = type /\ \A j \in 1..(k - 1) : turnEffects[j].type # type
  ELSE 0

\* The text of the thoughts of the turn
turnReasoning ==
  LET ts == SelectSeq(turnParts, LAMBDA q : q.kind = "thought")
      RECURSIVE cat(_)
      cat(k) == IF k > Len(ts) THEN <<>> ELSE ts[k].text \o cat(k + 1)
  IN cat(1)

\* The last thought signature of the turn
turnSignature ==
  LET ss == SelectSeq(turnParts, LAMBDA q : q.sig # NoSig)
  IN IF ss = <<>> THEN NoSig ELSE ss[Len(ss)].sig

turnHadToolCalls == \E k \in 1..Len(turnParts) : turnParts[k].kind = "functionCall"

\* The frame parsed last carried a finishReason
turnFinished == turnFrames # <<>> /\ turnFrames[Len(turnFrames)].finish

\* C31: in a turn that ends with a finishReason frame the parser stores the
\* latest thought signature with the accumulated reasoning text (when model
\* and signature are set and the gating admits; in the tool bucket iff the
\* turn had tool calls), then emits one ToolCalls event with all buffered
\* calls, then the Usage event, and clears the buffered calls: in this
\* order, and once per turn
C31_FinishOrder ==
  turnFinished =>
    LET sets == effectsOf("setSignature")
        flushes == effectsOf("tool_calls")
        calls == SelectSeq(turnParts, LAMBDA q : q.kind = "functionCall")
        admitted == /\ turnState.model # "" /\ turnSignature # NoSig
                    /\ shouldCacheSignature(turnFlags, turnHadToolCalls, FALSE)
    IN /\ Len(sets) = (IF admitted THEN 1 ELSE 0)
       /\ Len(flushes) = (IF turnHadToolCalls THEN 1 ELSE 0)
       /\ Len(effectsOf("usage")) <= 1
       /\ \A k \in 1..Len(sets) :
            /\ sets[k].bucket = (IF turnHadToolCalls THEN "tool" ELSE "reasoning")
            /\ sets[k].signature = turnSignature
            /\ sets[k].content = (IF turnReasoning # <<>> THEN turnReasoning ELSE Blank)
       /\ \A k \in 1..Len(flushes) : Len(flushes[k].tool_calls) = Len(calls)
       /\ (firstOf("setSignature") # 0 /\ firstOf("tool_calls") # 0)
            => firstOf("setSignature") < firstOf("tool_calls")
       /\ (firstOf("tool_calls") # 0 /\ firstOf("usage") # 0)
            => firstOf("tool_calls") < firstOf("usage")
       /\ (firstOf("setSignature") # 0 /\ firstOf("usage") # 0)
            => firstOf("setSignature") < firstOf("usage")
       /\ turnState.toolCalls = <<>>

\* The index of the last finishReason frame before the last frame, 0 if none
previousFinish ==
  LET earlier == {k \in 1..(Len(turnFrames) - 1) : turnFrames[k].finish}
  IN IF earlier = {} THEN 0 ELSE CHOOSE k \in earlier : \A j \in earlier : j <= k

\* The parts that arrived after the previous finishReason frame
segmentParts ==
  LET RECURSIVE all(_)
      all(k) == IF k > Len(turnFrames) THEN <<>> ELSE turnFrames[k].parts \o all(k + 1)
  IN all(previousFinish + 1)

\* The last n effects
lastEffects(n) == SubSeq(turnEffects, Len(turnEffects) - n + 1, Len(turnEffects))

\* C31, amended: at every finishReason frame the parser stores the latest
\* thought signature of the stream with the reasoning text accumulated since
\* the previous finishReason frame (a blank if there is none; when model and
\* signature are set and the gating admits; in the tool bucket iff function
\* calls were buffered since the previous finishReason frame), then emits one
\* ToolCalls event with the buffered calls if there are any, then the Usage
\* event if the frame has usageMetadata, and the buffer is empty afterwards
C31_FinishOrderPerFrame ==
  turnFinished =>
    LET calls == SelectSeq(segmentParts, LAMBDA q : q.kind = "functionCall")
        thoughts == SelectSeq(segmentParts, LAMBDA q : q.kind = "thought")
        text == [k \in 1..Len(thoughts) |-> "a"]
        hasTools == calls # <<>>
        admitted == /\ turnState.model # "" /\ turnSignature # NoSig
                    /\ shouldCacheSignature(turnFlags, hasTools, FALSE)
        stored == IF admitted THEN <<"setSignature">> ELSE <<>>
        flushed == IF hasTools THEN <<"tool_calls">> ELSE <<>>
        usage == IF turnFrames[Len(turnFrames)].hasUsage THEN <<"usage">> ELSE <<>>
        expected == stored \o flushed \o usage
        last == lastEffects(Len(expected))
    IN /\ Len(turnEffects) >= Len(expected)
       /\ \A k \in 1..Len(expected) : last[k].type = expected[k]
       /\ admitted =>
            /\ last[1].bucket = (IF hasTools THEN "tool" ELSE "reasoning")
            /\ last[1].signature = turnSignature
            /\ last[1].content = (IF text # <<>> THEN text ELSE Blank)
       /\ hasTools => Len(last[Len(stored) + 1].tool_calls) = Len(calls)
       /\ turnState.toolCalls = <<>>

C31_Witness ==
  /\ turnFinished /\ previousFinish # 0
  /\ Len(effectsOf("setSignature")) = 2
  /\ Len(effectsOf("tool_calls")) = 1
  /\ Len(effectsOf("usage")) = 2

\* C32: every functionCall part of an upstream request built by the CLI
\* converters carries a non-empty thoughtSignature, in the OpenAI, Claude
\* and Gemini dialects, with thinking enabled or disabled
C32_FunctionCallSigned ==
  \A i \in 1..Len(FunctionCallParts) : FunctionCallParts[i].sig # NoSig

\* The parts a standalone signature can be folded onto
FoldKinds == {"thought", "functionCall", "inlineData"}
IsFoldTarget(q) == q.kind \in FoldKinds /\ q.sig = NoSig

RECURSIVE foldNext(_, _)
\* Every standalone signature part folded onto the next part after it that
\* lacks a signature, in document order; the standalone parts are dropped
foldNext(parts, pending) ==
  IF parts = <<>> THEN <<>>
  ELSE LET q == Head(parts) IN
    IF q.kind = "signature" THEN foldNext(Tail(parts), Append(pending, q.sig))
    ELSE IF IsFoldTarget(q) /\ pending # <<>>
    THEN <<[q EXCEPT !.sig = Head(pending)]>> \o foldNext(Tail(parts), Tail(pending))
    ELSE <<q>> \o foldNext(Tail(parts), pending)

\* The parts of the turn that are no standalone signatures
proper(parts) == SelectSeq(parts, LAMBDA q : q.kind # "signature")
standaloneParts(parts) == SelectSeq(parts, LAMBDA q : q.kind = "signature")

\* The processed parts the client sent: without the thought part put in front
sentParts ==
  LET out == proper(processedTurn.parts)
  IN IF Len(out) > Len(proper(modelTurn)) THEN Tail(out) ELSE out

\* C33: after the post-processing of a Gemini model turn with thinking
\* enabled, each standalone signature part has been folded, in document
\* order, onto the next thought, functionCall or inlineData part lacking a
\* signature, and no standalone signature part remains in the turn
C33_SignaturesFolded ==
  processedTurn.done =>
    LET folded == foldNext(modelTurn, <<>>)
        sent == proper(modelTurn)
    IN /\ standaloneParts(processedTurn.parts) = <<>>
       /\ \A k \in 1..Len(sent) :
            folded[k].sig # sent[k].sig => sentParts[k].sig = folded[k].sig

\* The last index of a part with the property, 0 if there is none
lastWhere(parts, Test(_)) ==
  LET hits == {k \in 1..Len(parts) : Test(parts[k])}
  IN IF hits = {} THEN 0 ELSE CHOOSE k \in hits : \A j \in hits : j <= k

\* C33, amended: the last standalone signature part is folded onto the last
\* thought lacking a signature, if there is one; the other standalone
\* signature parts are folded, in document order, onto the functionCall and
\* inlineData parts lacking a signature, in document order, wherever these
\* are in the turn; the parts that were folded are removed, and the
\* standalone signature parts for which no such part is left remain
C33_SignaturesFoldedInOrder ==
  processedTurn.done =>
    LET t == lastWhere(modelTurn, LAMBDA q : q.kind = "thought" /\ q.sig = NoSig)
        s == lastWhere(modelTurn, LAMBDA q : q.kind = "signature")
        onThought == t # 0 /\ s # 0
        rest == standaloneParts(IF onThought THEN RemoveAt(modelTurn, s) ELSE modelTurn)
        sent == proper(modelTurn)
        tSent == lastWhere(sent, LAMBDA q : q.kind = "thought" /\ q.sig = NoSig)
        carriers == SelectSeq([k \in 1..Len(sent) |-> k],
                              LAMBDA k : sent[k].kind \in {"functionCall", "inlineData"}
                                           /\ sent[k].sig = NoSig)
        folds == IF Len(rest) < Len(carriers) THEN Len(rest) ELSE Len(carriers)
    IN /\ Len(sentParts) = Len(sent)
       /\ \A k \in 1..Len(sent) : sentParts[k].kind = sent[k].kind
       /\ onThought => sentParts[tSent].sig = modelTurn[s].sig
       /\ \A k \in 1..folds : sentParts[carriers[k]].sig = rest[k].sig
       /\ \A k \in (folds + 1)..Len(carriers) :
            sentParts[carriers[k]].sig \in
              {processedTurn.ctx.reasoningSignature, processedTurn.ctx.toolSignature} \ {NoSig}
       /\ standaloneParts(processedTurn.parts) = SubSeq(rest, folds + 1, Len(rest))

C33_Witness ==
  /\ processedTurn.done
  /\ Len(standaloneParts(modelTurn)) = 2
  /\ \E k \in 1..Len(modelTurn) : modelTurn[k] = [kind |-> "functionCall", sig |-> NoSig]
  /\ standaloneParts(processedTurn.parts) # <<>>

\* Request p's scan goes from the candidate it waited for to another attempt
ScanMoves(p) ==
  /\ pc[p] \in {"refresh", "fetch"}
  /\ \/ pc'[p] \in {"refresh", "fetch"} /\ iter'[p] # iter[p]
     \/ pc'[p] = "request" /\ tok'[p] # tok[p]

\* The positions of an account in the active list
PositionsOf(toks, h, r) == {k \in 1..Len(toks) : h[toks[k]].rt = r}

\* C34: a getToken scan attempts the accounts that are active when it starts
\* in ring order from currentIndex, each at most once, also when candidates
\* are disabled during the scan: when the scan moves on from a candidate that
\* failed, the next attempt is made on another account, the one that follows
\* the failed candidate in the active list
C34_ScanRingOrder ==
  [][\A p \in Procs :
       ScanMoves(p) =>
         LET r == heap[tok[p]].rt
             next == heap'[tok'[p]].rt
             at == PositionsOf(tokens, heap, r)
         IN /\ next # r
            /\ \A k \in at : heap[tokens[(k % Len(tokens)) + 1]].rt = next]_vars

\* An active account other than a that needs no refresh and has its projectId
OtherReady(a) ==
  \E k \in 1..Len(tokens) :
    LET t == heap[tokens[k]] IN
      t.rt # a /\ ~isExpired(t, now) /\ t.projectId # NoProject

\* The last n calls of the run returned the same account
SameAccount(n) ==
  /\ Len(run) >= n
  /\ \A k \in (Len(run) - n + 1)..Len(run) : run[k] = run[Len(run)]

\* C35: under request_count(N), with one recordRequest per successful
\* request, no account is returned by more than N consecutive getToken calls
\* while another ready account exists
C35_AtMostNConsecutive ==
  (rotationStrategy = "request_count" /\ run # <<>> /\ OtherReady(run[Len(run)]))
    => ~SameAccount(requestCountPerToken + 1)

(* C36: the credential file never holds two accounts with the same
   refresh_token, after any sequence of addToken and import (merge or replace)
   operations.  Violated: addToken appends without looking for the refresh
   token, replace mode writes the import list as parsed, and merge mode compares
   only with the refresh tokens the file had before the import. *)
C36_UniqueRefreshToken ==
  \A i, j \in 1..Len(storedTokens) :
    storedTokens[i].refresh_token = storedTokens[j].refresh_token => i = j

(* C37: the body of a non-streaming /cli response is a function of that
   request and of its own upstream response only: it is the body the dialect's
   formatter gives for the upstream's content, thought text and signature, and
   no thought text or signature cached from an earlier request appears in it.
   Violated: an answer without signature takes the signature, and with no
   thought text the thought text, of the model's cache entry. *)
C37_BodyOfOwnUpstream ==
  cliResponse.done =>
    cliResponse.body = responseBody(cliResponse.format, cliResponse.upstream.content,
                                    cliResponse.upstream.reasoningContent,
                                    cliResponse.upstream.reasoningSignature)

\* The functionCall parts among these parts
functionCallsOf(parts) == SelectSeq(parts, LAMBDA part : part.kind = "functionCall")

RECURSIVE deliveredToolCalls(_)
\* The tool calls of the tool_calls events the handler's callback was given
deliveredToolCalls(evs) ==
  IF evs = <<>> THEN <<>>
  ELSE (IF Head(evs).type = "tool_calls" THEN Head(evs).tool_calls ELSE <<>>)
       \o deliveredToolCalls(Tail(evs))

\* The handler has finalized a stream it did not fake
streamFinalized == writerPc \in {"finalized", "ended"} /\ ~writer.fake

(* C38 as stated: when the handler finalizes the stream, every functionCall
   part that arrived has been delivered in a tool_calls event, whatever the
   upstream transcript.  Violated by a transcript whose functionCall part is
   not followed by a frame with finishReason. *)
C38_ToolCallsDelivered ==
  streamFinalized =>
    Len(deliveredToolCalls(seen)) = Len(functionCallsOf(arrived))

(* C38, amended: when the handler finalizes the stream, the functionCall
   parts delivered in tool_calls events are those that arrived in complete
   data lines up to the last frame with a finishReason, each once and in
   order; those that arrived after it are still in the parser's buffer. *)
C38_ToolCallsDeliveredAtFinish ==
  streamFinalized =>
    /\ Len(deliveredToolCalls(seen)) + Len(functionCallsOf(sinceFinish))
         = Len(functionCallsOf(arrived))
    /\ \A i \in 1..Len(deliveredToolCalls(seen)) :
         deliveredToolCalls(seen)[i] = convertToToolCall(functionCallsOf(arrived)[i])

\* A finalized stream with a tool call delivered at a finishReason and
\* another one that arrived after it
C38_Witness ==
  /\ streamFinalized
  /\ deliveredToolCalls(seen) # <<>>
  /\ functionCallsOf(sinceFinish) # <<>>

(* C39: for every /cli request that is converted, the format convertToGeminiCli
   detects from the body, whose converter builds the upstream request, is the
   format of the route, with which the body was validated and the response is
   written.  Violated: the forced format reaches the validation and the
   response only, the converter detects the format again. *)
C39_ConverterOfRoute ==
  cliRouted.ok => cliRouted.sourceFormat = cliRouted.format

(* C40: every streaming chat request eventually ends its HTTP response, on
   every path, also when the upstream call fails after bytes were written.
   Violated under the fairness of the upstream call: /v1/chat/completions and
   handleClaudeRequest return from their catch without res.end when the
   headers are sent. *)
C40_ResponseEnds == (chatPc = "streaming") ~> chatEnded

====
